---- MODULE Spec2Model ----
(***************************************************************************)
(* A model of the hamerkop entity-linking core: the resolver cascade       *)
(* (hamerkop/resolver.py), the candidate generators                        *)
(* (hamerkop/candidates.py), the name indexes and the KB load              *)
(* (hamerkop/kb.py), the coreference stages and their scorer               *)
(* (hamerkop/coref.py), and the entity loader, the cascades of filters and *)
(* the ground truth reader (hamerkop/io.py).                               *)
(*                                                                         *)
(* Strings are sequences of one-character strings, so that lower-casing,   *)
(* URL construction and edit distance are computed, not assumed.           *)
(***************************************************************************)
EXTENDS Integers, Sequences, FiniteSets, TLC

\* Python's None.
None == "None"

Range(s) == {s[i] : i \in DOMAIN s}

Max2(a, b) == IF a >= b THEN a ELSE b

Min2(a, b) == IF a <= b THEN a ELSE b

(***************************************************************************)
(* Strings                                                                 *)
(***************************************************************************)

\* str.lower() on one character, for the characters the fixtures use.
LowerChar(ch) ==
    CASE ch = "A" -> "a"
      [] ch = "H" -> "h"
      [] ch = "J" -> "j"
      [] ch = "L" -> "l"
      [] ch = "O" -> "o"
      [] ch = "S" -> "s"
      [] ch = "X" -> "x"
      [] OTHER -> ch

\* str.lower()
Lower(s) == [i \in DOMAIN s |-> LowerChar(s[i])]

\* CaseInsensitiveSet(data): the store holds the lower-cased items.
CaseInsensitiveSet(data) == {Lower(s) : s \in data}

\* str.replace(old, new) for a one-character old and new.
Replace(s, old, new) == [i \in DOMAIN s |-> IF s[i] = old THEN new ELSE s[i]]

\* The characters urllib.parse.quote leaves alone: letters, digits, "_.-~"
\* and the default safe character "/".
QuoteSafe ==
    {"a", "b", "c", "d", "e", "f", "g", "h", "i", "j", "k", "l", "o", "s", "x",
     "A", "H", "J", "L", "O", "S", "X", "_", ".", "-", "~", "/"}

\* urllib.parse.quote on one character: the percent-encoding of its UTF-8 bytes.
QuoteChar(ch) ==
    CASE ch \in QuoteSafe -> <<ch>>
      [] ch = " " -> <<"%", "2", "0">>
      [] ch = "'" -> <<"%", "2", "7">>
      [] OTHER -> <<"%", "?", "?">>

RECURSIVE Quote(_)
Quote(s) == IF s = <<>> THEN <<>> ELSE QuoteChar(Head(s)) \o Quote(Tail(s))

\* The literal prefix of the link, kept as one symbol (it is lower case already).
WikiPrefix == <<"http://en.wikipedia.org/wiki/">>

\* The character U+2019 (right single quotation mark), named as one symbol.
RSquo == "rsquo"

\* WikipediaResolver._create_wikipedia_link
CreateWikipediaLink(string) ==
    WikiPrefix \o Quote(Replace(Replace(string, " ", "_"), RSquo, "'"))

\* One row of the Levenshtein table: prev holds the distances of s[1..i-1]
\* to every prefix of t, acc the part of the row of s[1..i] built so far.
RECURSIVE LevRow(_, _, _, _)
LevRow(si, t, prev, acc) ==
    IF Len(acc) > Len(t) THEN acc
    ELSE LET j == Len(acc)
             sub == prev[j] + (IF si = t[j] THEN 0 ELSE 1)
             del == prev[j + 1] + 1
             ins == acc[j] + 1
         IN  LevRow(si, t, prev, Append(acc, Min2(sub, Min2(del, ins))))

\* The Levenshtein table, row by row.
RECURSIVE LevTable(_, _, _)
LevTable(s, t, rows) ==
    IF Len(rows) > Len(s) THEN rows
    ELSE LET i == Len(rows)
             prev == rows[i]
         IN  LevTable(s, t, Append(rows, LevRow(s[i], t, prev, <<prev[1] + 1>>)))

\* editdistance.eval(s, t): the Levenshtein distance.
EditDistance(s, t) ==
    LevTable(s, t, <<[j \in 1..(Len(t) + 1) |-> j - 1]>>)[Len(s) + 1][Len(t) + 1]

(***************************************************************************)
(* Fixtures: entities, mentions, chains                                    *)
(***************************************************************************)

sJoS == <<"J", "o", " ", "S">>
sjos == <<"j", "o", " ", "s">>
sAl == <<"A", "l">>
sAL == <<"A", "L">>
sXo == <<"X", "o">>
sLong == <<"a", "b", "c", "d", "e", "f", "g", "h", "i", "j", "k">>
sLonx == <<"a", "b", "c", "d", "e", "f", "g", "h", "i", "j", "x">>
uJoS == WikiPrefix \o <<"J", "o", "_", "S">>
uJoHS == WikiPrefix \o <<"J", "o", "_", "H", "_", "S">>

\* The entity objects (an object is named by its id).
Entities == {"e122", "e123", "e124"}

\* Entity.names
EntityNames(e) ==
    CASE e = "e122" -> {sJoS}
      [] e = "e123" -> {sJoS, sLong}
      [] e = "e124" -> {sAl}

\* Entity.urls
EntityUrls(e) ==
    CASE e = "e122" -> {uJoS}
      [] e = "e123" -> {uJoHS}
      [] e = "e124" -> {uJoS}

\* The MentionChain objects of the document.
Chains == {"c1", "c2"}

\* MentionChain.mentions: each Mention with its string, translit_string and
\* translate_string (None when absent) and its type.
ChainMentions(c) ==
    CASE c = "c1" -> <<[string |-> sjos, translit_string |-> None,
                        translate_string |-> sLonx, type |-> "PER"]>>
      [] c = "c2" -> <<[string |-> sXo, translit_string |-> sJoS,
                        translate_string |-> None, type |-> "ORG"],
                       [string |-> sAL, translit_string |-> None,
                        translate_string |-> None, type |-> "ORG"]>>
      [] c = "c3" -> <<[string |-> sAl, translit_string |-> None,
                        translate_string |-> None, type |-> "PER"],
                       [string |-> sJoS, translit_string |-> None,
                        translate_string |-> None, type |-> "PER"]>>
      [] c = "c4" -> <<[string |-> sjos, translit_string |-> None,
                        translate_string |-> None, type |-> "ORG"]>>

\* The chains that candidates are looked up for.
FindChains == {"c1", "c2", "c3", "c4"}

\* max(strings, key=len): the first of the longest strings.
RECURSIVE MaxByLen(_, _, _)
MaxByLen(strings, i, best) ==
    IF i > Len(strings) THEN best
    ELSE MaxByLen(strings, i + 1,
                  IF Len(strings[i]) > Len(best) THEN strings[i] ELSE best)

\* MentionChain.name (with _name unset)
ChainName(c) ==
    LET strings == [i \in DOMAIN ChainMentions(c) |-> ChainMentions(c)[i].string]
    IN  MaxByLen(strings, 2, strings[1])

\* MentionChain.names
ChainNames(c) == {m.string : m \in Range(ChainMentions(c))}

\* MentionChain.get_all_strings
ChainAllStrings(c) ==
    UNION {{m.string} \cup (IF m.translit_string # None THEN {m.translit_string} ELSE {})
                      \cup (IF m.translate_string # None THEN {m.translate_string} ELSE {})
           : m \in Range(ChainMentions(c))}

\* MentionChain.type
ChainType(c) == ChainMentions(c)[1].type

(***************************************************************************)
(* Resolvers (hamerkop/resolver.py)                                        *)
(*                                                                         *)
(* A resolver works on a document: the list mention_chains and, per chain, *)
(* the fields entity and candidates.  The base resolvers loop over the     *)
(* chains of document.mention_chains and treat each chain on its own, so   *)
(* each is given as the new [entity, candidates] of one chain.             *)
(***************************************************************************)

\* FirstResolver.resolve, one chain.
FirstResolverChain(c, ent, cands) ==
    IF cands # <<>>
    THEN [entity |-> cands[1], candidates |-> cands]
    ELSE [entity |-> ent, candidates |-> cands]

\* The strings of the chain that ExactNameResolver compares: chain.names.
ExactNameStrings(c) == ChainNames(c)

\* ExactNameResolver.resolve: names & CaseInsensitiveSet(candidate.names)
ExactNameMatch(c, e) ==
    CaseInsensitiveSet(ExactNameStrings(c)) \cap CaseInsensitiveSet(EntityNames(e)) # {}

\* Mutant: several matches do not narrow the candidates.
OneManyNoneKeepsCandidates(ent, cands, matches) ==
    IF matches # <<>> /\ Len(matches) = 1
    THEN [entity |-> matches[1], candidates |-> cands]
    ELSE [entity |-> ent, candidates |-> cands]

\* The one/many/none rule shared by ExactNameResolver and WikipediaResolver.
OneManyNone(ent, cands, matches) ==
    IF matches # <<>>
    THEN IF Len(matches) = 1
         THEN [entity |-> matches[1], candidates |-> cands]
         ELSE [entity |-> ent, candidates |-> matches]
    ELSE [entity |-> ent, candidates |-> cands]

\* ExactNameResolver.resolve, one chain.
ExactNameResolverChain(c, ent, cands) ==
    OneManyNone(ent, cands, SelectSeq(cands, LAMBDA e : ExactNameMatch(c, e)))

\* WikipediaResolver.resolve: links & CaseInsensitiveSet(candidate.urls)
WikipediaMatch(c, e) ==
    CaseInsensitiveSet({CreateWikipediaLink(s) : s \in ChainNames(c)})
        \cap CaseInsensitiveSet(EntityUrls(e)) # {}

\* WikipediaResolver.resolve, one chain.
WikipediaResolverChain(c, ent, cands) ==
    OneManyNone(ent, cands, SelectSeq(cands, LAMBDA e : WikipediaMatch(c, e)))

\* d = editdistance.eval(x, y) / max(len(x), len(y)), kept as the pair
\* <<numerator, denominator>>; the strings are never empty.
NormDistances(c, e) ==
    {<<EditDistance(x, y), Max2(Len(x), Len(y))>> :
        x \in CaseInsensitiveSet(ChainAllStrings(c)),
        y \in CaseInsensitiveSet(EntityNames(e))}

\* f < g for two such fractions.
FracLess(f, g) == f[1] * g[2] < g[1] * f[2]

\* The smallest d over the names of one entity.
BestDistance(c, e) ==
    CHOOSE p \in NormDistances(c, e) : \A q \in NormDistances(c, e) : ~FracLess(q, p)

\* BestDistance of every chain and entity, computed once.
BestDistanceTable == [c \in Chains, e \in Entities |-> BestDistance(c, e)]

\* EditDistanceResolver.resolve: the scan over chain.candidates, keeping the
\* first entity that reaches the smallest distance (d < distance is strict).
\* float("inf") is the fraction <<1, 0>>.
RECURSIVE EditDistanceScan(_, _, _, _, _)
EditDistanceScan(c, cands, i, distance, best) ==
    IF i > Len(cands) THEN [distance |-> distance, best_match |-> best]
    ELSE LET d == BestDistanceTable[c, cands[i]]
         IN  IF FracLess(d, distance)
             THEN EditDistanceScan(c, cands, i + 1, d, cands[i])
             ELSE EditDistanceScan(c, cands, i + 1, distance, best)

\* EditDistanceResolver.resolve, one chain: distance < 0.1 selects best_match.
EditDistanceResolverChain(c, ent, cands) ==
    LET r == EditDistanceScan(c, cands, 1, <<1, 0>>, None)
    IN  IF 10 * r.distance[1] < r.distance[2]
        THEN [entity |-> r.best_match, candidates |-> cands]
        ELSE [entity |-> ent, candidates |-> cands]

\* The values classifier.decision_function may give one candidate.
Scores == {-1, 0, 1}

\* np.amax(scores)
Amax(sc) == CHOOSE m \in Range(sc) : \A x \in Range(sc) : x <= m

\* Mutant: the last index of the maximum.
ArgMaxLast(sc) ==
    CHOOSE i \in DOMAIN sc : sc[i] = Amax(sc) /\ \A j \in (i + 1)..Len(sc) : sc[j] # Amax(sc)

\* np.where(scores == np.amax(scores))[0][0]: the first index of the maximum.
ArgMaxFirst(sc) ==
    CHOOSE i \in DOMAIN sc : sc[i] = Amax(sc) /\ \A j \in 1..(i - 1) : sc[j] # Amax(sc)

\* classify(features): the scores of the chain's candidates, in order, under
\* a classifier cl that maps an entity's features to a score.
Classify(cl, cands) == [i \in DOMAIN cands |-> cl[cands[i]]]

\* SvmResolver.resolve, one chain; sc are the classifier's scores of the
\* chain's candidates, in order.
SvmResolverChain(c, ent, cands, sc) ==
    IF \A i \in DOMAIN sc : sc[i] < 0
    THEN [entity |-> ent, candidates |-> cands]
    ELSE [entity |-> cands[ArgMaxFirst(sc)], candidates |-> cands]

\* The resolver classes without wrappers.
BaseKinds == {"First", "ExactName", "Wikipedia", "EditDistance", "Svm"}

\* One chain under a base resolver; cl is the classifier of an SvmResolver.
ResolveChain(kind, c, ent, cands, cl) ==
    CASE kind = "First" -> FirstResolverChain(c, ent, cands)
      [] kind = "ExactName" -> ExactNameResolverChain(c, ent, cands)
      [] kind = "Wikipedia" -> WikipediaResolverChain(c, ent, cands)
      [] kind = "EditDistance" -> EditDistanceResolverChain(c, ent, cands)
      [] kind = "Svm" -> SvmResolverChain(c, ent, cands, Classify(cl, cands))

\* A document as the resolvers see it.
Doc(mc, ent, cands) == [mention_chains |-> mc, entity |-> ent, candidates |-> cands]

\* A base resolver's resolve(document): for chain in document.mention_chains.
ResolveBase(kind, doc, cl) ==
    LET new(c) == ResolveChain(kind, c, doc.entity[c], doc.candidates[c], cl)
        given == Range(doc.mention_chains)
    IN  [mention_chains |-> doc.mention_chains,
         entity |-> [c \in Chains |-> IF c \in given THEN new(c).entity ELSE doc.entity[c]],
         candidates |-> [c \in Chains |->
                            IF c \in given THEN new(c).candidates ELSE doc.candidates[c]]]

\* Mutant: the chains of the other types are not put back.
TypeSpecificResolveDropsOthers(kind, types, doc, cl) ==
    ResolveBase(kind, Doc(SelectSeq(doc.mention_chains, LAMBDA x : ChainType(x) \in types),
                          doc.entity, doc.candidates), cl)

\* TypeSpecificResolver.resolve
TypeSpecificResolve(kind, types, doc, cl) ==
    LET other_chains == SelectSeq(doc.mention_chains, LAMBDA x : ChainType(x) \notin types)
        chains == SelectSeq(doc.mention_chains, LAMBDA x : ChainType(x) \in types)
        after == ResolveBase(kind, Doc(chains, doc.entity, doc.candidates), cl)
    IN  Doc(after.mention_chains \o other_chains, after.entity, after.candidates)

\* LanguageSpecificResolver.resolve
LanguageSpecificResolve(kind, langs, doc, doclang, cl) ==
    IF doclang \in langs THEN ResolveBase(kind, doc, cl) ELSE doc

\* A base resolver without a wrapper.
Bare(kind) == [kind |-> kind, wrap |-> "none", arg |-> {}]

\* The resolvers a cascade may hold: a base resolver, bare or wrapped once.
Resolvers ==
    [kind : BaseKinds, wrap : {"none"}, arg : {{}}]
        \cup [kind : BaseKinds, wrap : {"type"}, arg : {{"PER"}}]
        \cup [kind : BaseKinds, wrap : {"lang"}, arg : {{"en"}}]

\* resolver.resolve(document)
Resolve(r, doc, doclang, cl) ==
    CASE r.wrap = "none" -> ResolveBase(r.kind, doc, cl)
      [] r.wrap = "type" -> TypeSpecificResolve(r.kind, r.arg, doc, cl)
      [] r.wrap = "lang" -> LanguageSpecificResolve(r.kind, r.arg, doc, doclang, cl)

\* The chains a resolver loops over when given the list mc.
Looped(r, mc, doclang) ==
    CASE r.wrap = "none" -> Range(mc)
      [] r.wrap = "type" -> {c \in Range(mc) : ChainType(c) \in r.arg}
      [] r.wrap = "lang" -> IF doclang \in r.arg THEN Range(mc) ELSE {}

(***************************************************************************)
(* CascadeResolver.resolve as a state machine                              *)
(***************************************************************************)

\* Bounds of the resolver model.
MaxResolvers == 2
MaxCands == 3
MaxCandsOther == 1

VARIABLES
    lang,            \* document.lang
    resolvers,       \* CascadeResolver.resolvers
    classifier,      \* SvmResolver.classifier, as entity -> score
    mention_chains,  \* document.mention_chains
    entity,          \* chain.entity of every chain
    candidates,      \* chain.candidates of every chain
    resolved,        \* the local list resolved
    ri,              \* the index of the resolver the loop is at
    rpc,             \* where resolve is: "loop", "break", "done"
    chains0,         \* document.mention_chains when resolve was called
    entity0,         \* chain.entity when resolve was called
    candidates0,     \* chain.candidates when resolve was called
    log              \* per resolver run: the chains it was given, the fields after it

rvars == <<lang, resolvers, classifier, mention_chains, entity, candidates,
           resolved, ri, rpc, chains0, entity0, candidates0, log>>

VARIABLES
    generators,      \* per child generator, the list its find returns for the chain
    num_candidates,  \* CascadeGenerator.num_candidates
    cascade_ret,     \* what CascadeGenerator.find returned and the children it called
    combining_ret    \* what CombiningGenerator.find returned and the children it called

gvars == <<generators, num_candidates, cascade_ret, combining_ret>>

VARIABLES
    cache,           \* CachingGenerator.cache
    under_calls,     \* the find calls that reached the wrapped generator
    finds            \* per find call on the CachingGenerator: the chain, the list returned

cvars == <<cache, under_calls, finds>>

VARIABLES
    kb,              \* MemoryKB.entities: the entities in the order of the dict
    ngram_size,      \* NgramMemoryNameIndex.ngram_size
    query,           \* the arguments name, entity_type, limit of find
    exact_ret,       \* what ExactMatchMemoryNameIndex.find returned
    ngram_ret,       \* what NgramMemoryNameIndex.find returned, and its list top
    exact_index,     \* ExactMatchMemoryNameIndex.index: type, key, list of ids
    ngram_index      \* NgramMemoryNameIndex.index: type, key, list of name_ids

kvars == <<kb, ngram_size, query, exact_ret, ngram_ret, exact_index, ngram_index>>

VARIABLES
    doc_chains,      \* document.mention_chains of the coreference stages
    stage,           \* the stage that runs, with min_length or index
    spc,             \* where update is: "start", "loop"
    pending,         \* what the loop of update has still to visit
    local_chains,    \* the local list chains of AcronymStage.update
    next_cid,        \* the identity the next MentionChain object gets
    doc0,            \* document.mention_chains when the stage started
    merges,          \* per call of merge: the chains given, their order, the new chain
    wrapper,         \* the wrapper of the stage, with its types or langs
    other_chains,    \* the local list other_chains of TypeSpecificStage.update
    stages_run       \* how many stages CascadeCoref.coref has called

dvars == <<doc_chains, stage, spc, pending, local_chains, next_cid, doc0, merges,
           wrapper, other_chains, stages_run>>

VARIABLES
    gt_clusters,         \* CorefScorer.gt_clusters[doc_id]
    predicted_clusters,  \* predicted_clusters of CorefScorer.update
    metric,              \* CorefMetric.MUC or CorefMetric.B3
    scores               \* the numerators and denominators of the scorer

svars == <<gt_clusters, predicted_clusters, metric, scores>>

VARIABLES
    loader,          \* the class that loads: MemoryKB or EntityLoader
    streams,         \* the rows of entities_fp and of alt_names_fp
    load_filters,    \* whether entity_filter and name_filter are given
    entities,        \* the dict entities, in the order of its keys
    load_pc,         \* "start", "done", or the exception the load raised
    alt_passes       \* how often _load_alt_names has run

bvars == <<loader, streams, load_filters, entities, load_pc, alt_passes>>

VARIABLES
    filter_class,    \* CascadeEntityFilter or CascadeNameFilter
    filters,         \* per filter of self.filters, what its filter answers
    filter_ret       \* what the cascade returned and the filters it called

fvars == <<filter_class, filters, filter_ret>>

VARIABLES
    gt_rows,         \* the rows of the ground truth file after its header
    gt_data          \* what OutputReader.read returned: per offsets, the Link

ovars == <<gt_rows, gt_data>>

VARIABLES
    wrapped,         \* per chain, the list the wrapped generator finds for it
    heap,            \* the list objects made so far: heap[i] is the list i
    cache_lists,     \* CachingGenerator.cache: per key, the list it stores
    chain_lists,     \* chain.candidates of the chains of the document
    chain_entity,    \* chain.entity of the chains of the document
    apc,             \* what the document awaits: "process" or "resolve"
    docs_done        \* the documents processed and resolved so far

avars == <<wrapped, heap, cache_lists, chain_lists, chain_entity, apc, docs_done>>

vars == <<rvars, gvars, cvars, kvars, dvars, svars, bvars, fvars, ovars, avars>>

\* All lists over S of length at most n.
SeqsUpTo(S, n) == UNION {[1..k -> S] : k \in 0..n}

\* new_resolved = [chain for chain in document.mention_chains if chain.entity is not None]
NewResolved(mc, ent) == SelectSeq(mc, LAMBDA c : ent[c] # None)

\* Mutant: the working set is not narrowed.
UnresolvedKeepsAll(mc, ent) == mc

\* Mutant: the test of the narrowing is inverted.
UnresolvedInverted(mc, ent) == SelectSeq(mc, LAMBDA c : ent[c] # None)

\* [chain for chain in document.mention_chains if chain.entity is None]
Unresolved(mc, ent) == SelectSeq(mc, LAMBDA c : ent[c] = None)

\* Mutant: resolved is overwritten instead of extended.
ExtendResolvedOverwrites(res, new_resolved) == new_resolved

\* resolved.extend(new_resolved)
ExtendResolved(res, new_resolved) == res \o new_resolved

\* The state when CascadeResolver(rs).resolve(document) is called.
ResolveInit(langs, rs, cl, c1lists, c2lists, ent2) ==
    /\ lang \in langs
    /\ resolvers \in rs
    /\ classifier \in cl
    /\ mention_chains = <<"c1", "c2">>
    /\ \E e \in ent2 : entity = [c \in Chains |-> IF c = "c2" THEN e ELSE None]
    /\ \E l1 \in c1lists, l2 \in c2lists :
          candidates = [c \in Chains |-> IF c = "c1" THEN l1 ELSE l2]
    /\ resolved = <<>>
    /\ ri = 1
    /\ rpc = "loop"
    /\ chains0 = mention_chains
    /\ entity0 = entity
    /\ candidates0 = candidates
    /\ log = <<>>

\* One pass of the loop body: lines 207-212.
CascadeIter ==
    /\ rpc = "loop"
    /\ ri <= Len(resolvers)
    /\ LET after == Resolve(resolvers[ri], Doc(mention_chains, entity, candidates),
                            lang, classifier)
           left == Unresolved(after.mention_chains, after.entity)
       IN  /\ entity' = after.entity
           /\ candidates' = after.candidates
           /\ resolved' = ExtendResolved(resolved,
                                          NewResolved(after.mention_chains, after.entity))
           /\ mention_chains' = left
           /\ rpc' = IF left = <<>> THEN "break" ELSE "loop"
           /\ log' = Append(log, [given |-> mention_chains,
                                  entity |-> after.entity,
                                  candidates |-> after.candidates])
    /\ ri' = ri + 1
    /\ UNCHANGED <<lang, resolvers, classifier, chains0, entity0, candidates0>>
    /\ UNCHANGED <<gvars, cvars, kvars, dvars, svars, bvars, fvars, ovars, avars>>

\* Line 213, reached when the list is exhausted or by the break.
CascadeExtend ==
    /\ rpc = "break" \/ (rpc = "loop" /\ ri > Len(resolvers))
    /\ mention_chains' = mention_chains \o resolved
    /\ rpc' = "done"
    /\ UNCHANGED <<lang, resolvers, classifier, entity, candidates, resolved, ri,
                   chains0, entity0, candidates0, log>>
    /\ UNCHANGED <<gvars, cvars, kvars, dvars, svars, bvars, fvars, ovars, avars>>

ResolveNext == CascadeIter \/ CascadeExtend


\* No CascadeResolver.resolve is running.
ResolveIdle ==
    /\ lang = "en"
    /\ resolvers = <<>>
    /\ classifier = [e \in Entities |-> -1]
    /\ mention_chains = <<>>
    /\ entity = [c \in Chains |-> None]
    /\ candidates = [c \in Chains |-> <<>>]
    /\ resolved = <<>>
    /\ ri = 1
    /\ rpc = "done"
    /\ chains0 = <<>>
    /\ entity0 = entity
    /\ candidates0 = candidates
    /\ log = <<>>

(***************************************************************************)
(* Candidate generators (hamerkop/candidates.py)                           *)
(*                                                                         *)
(* An entity object is a record of its id and of obj, which tells apart    *)
(* the objects that carry the same id.  A Python dict is the list of its   *)
(* values in insertion order, keyed by the field id.                       *)
(***************************************************************************)

Entity(id, obj) == [id |-> id, obj |-> obj]

\* The ids of the entities of a list.
Ids(list) == {list[i].id : i \in DOMAIN list}

\* Mutant: an id already in the dict keeps its first entity.
DictSetKeepsFirst(dict, ent) ==
    IF ent.id \in Ids(dict) THEN dict ELSE Append(dict, ent)

\* candidate_dict[entity.id] = entity
DictSet(dict, ent) ==
    IF ent.id \in Ids(dict)
    THEN [i \in DOMAIN dict |-> IF dict[i].id = ent.id THEN ent ELSE dict[i]]
    ELSE Append(dict, ent)

\* for entity in generator.find(mention_chain): candidate_dict[entity.id] = entity
RECURSIVE DictUpdate(_, _, _)
DictUpdate(dict, found, j) ==
    IF j > Len(found) THEN dict
    ELSE DictUpdate(DictSet(dict, found[j]), found, j + 1)

\* A find that has not returned.
NotReturned == [returned |-> FALSE, values |-> <<>>, calls |-> <<>>]

\* Mutant: the cascade never stops early.
StopCascadeNever(n, threshold) == FALSE

\* if len(candidate_dict) >= self.num_candidates: break
StopCascade(n, threshold) == n >= threshold

\* The loop of CascadeGenerator.find from child i on; calls lists the
\* children whose find was called.
RECURSIVE CascadeLoop(_, _, _, _, _)
CascadeLoop(gens, threshold, i, dict, calls) ==
    IF i > Len(gens) THEN [returned |-> TRUE, values |-> dict, calls |-> calls]
    ELSE LET filled == DictUpdate(dict, gens[i], 1)
         IN  IF StopCascade(Len(filled), threshold)
             THEN [returned |-> TRUE, values |-> filled, calls |-> Append(calls, i)]
             ELSE CascadeLoop(gens, threshold, i + 1, filled, Append(calls, i))

\* CascadeGenerator.find
CascadeFind(gens, threshold) == CascadeLoop(gens, threshold, 1, <<>>, <<>>)

\* The loop of CombiningGenerator.find from child i on.
RECURSIVE CombiningLoop(_, _, _, _)
CombiningLoop(gens, i, dict, calls) ==
    IF i > Len(gens) THEN [returned |-> TRUE, values |-> dict, calls |-> calls]
    ELSE CombiningLoop(gens, i + 1, DictUpdate(dict, gens[i], 1), Append(calls, i))

\* CombiningGenerator.find
CombiningFind(gens) == CombiningLoop(gens, 1, <<>>, <<>>)

\* Mutant: the key keeps the case of the name.
GenKeyKeepsCase(c) == ChainName(c) \o <<":", ChainType(c)>>

\* CachingGenerator._gen_key
GenKey(c) == Lower(ChainName(c)) \o <<":", ChainType(c)>>

MaxGenerators == 3
MaxThreshold == 3
MaxFinds == 3

\* The lists a child generator may return.
GenResults ==
    {<<>>,
     <<Entity("e122", 1)>>,
     <<Entity("e122", 2), Entity("e123", 1)>>,
     <<Entity("e123", 2), Entity("e124", 1)>>,
     <<Entity("e124", 2), Entity("e122", 3)>>,
     <<Entity("e123", 3), Entity("e123", 4)>>,
     <<Entity("e122", 1), Entity("e123", 1), Entity("e124", 1)>>}

\* The lists the generator wrapped by a CachingGenerator may return.
WrappedResults ==
    {<<>>, <<Entity("e122", 1)>>, <<Entity("e122", 2), Entity("e123", 1)>>}

\* A CascadeGenerator and a CombiningGenerator over the same children.
GeneratorsInit ==
    /\ generators \in SeqsUpTo(GenResults, MaxGenerators)
    /\ num_candidates \in 0..MaxThreshold
    /\ cascade_ret = NotReturned
    /\ combining_ret = NotReturned

\* No CascadeGenerator or CombiningGenerator is in use.
GeneratorsIdle ==
    /\ generators = <<>>
    /\ num_candidates = 0
    /\ cascade_ret = NotReturned
    /\ combining_ret = NotReturned

\* CachingGenerator.__init__
CachingInit ==
    /\ cache = <<>>
    /\ under_calls = <<>>
    /\ finds = <<>>

\* CascadeGenerator(generators, num_candidates).find(chain)
CascadeGeneratorFind ==
    /\ cascade_ret = NotReturned
    /\ cascade_ret' = CascadeFind(generators, num_candidates)
    /\ UNCHANGED <<generators, num_candidates, combining_ret>>
    /\ UNCHANGED <<rvars, cvars, kvars, dvars, svars, bvars, fvars, ovars, avars>>

\* CombiningGenerator(generators).find(chain)
CombiningGeneratorFind ==
    /\ combining_ret = NotReturned
    /\ combining_ret' = CombiningFind(generators)
    /\ UNCHANGED <<generators, num_candidates, cascade_ret>>
    /\ UNCHANGED <<rvars, cvars, kvars, dvars, svars, bvars, fvars, ovars, avars>>

GeneratorsNext == CascadeGeneratorFind \/ CombiningGeneratorFind

\* CachingGenerator.find(mention_chain); a list the wrapped generator returns
\* is a new object, told apart by the field list.
CachingGeneratorFind ==
    /\ Len(finds) < MaxFinds
    /\ \E c \in FindChains, found \in WrappedResults :
          LET key == GenKey(c)
              n == Len(finds) + 1
              cands == [list |-> n, items |-> found]
          IN  IF key \in DOMAIN cache
              THEN /\ finds' = Append(finds, [chain |-> c, ret |-> cache[key]])
                   /\ UNCHANGED <<cache, under_calls>>
              ELSE /\ under_calls' = Append(under_calls, n)
                   /\ cache' = [k \in DOMAIN cache \cup {key} |->
                                   IF k = key THEN cands ELSE cache[k]]
                   /\ finds' = Append(finds, [chain |-> c, ret |-> cands])
    /\ UNCHANGED <<rvars, gvars, kvars, dvars, svars, bvars, fvars, ovars, avars>>

CachingNext == CachingGeneratorFind


(***************************************************************************)
(* Name indexes (hamerkop/kb.py)                                           *)
(*                                                                         *)
(* The KB is the list of its entities in the order of the dict; an entity  *)
(* holds its names in the order the set is iterated.  A mass, a sum of     *)
(* values log1p(n / k) = ln((k + n) / k), is kept as the fraction <<p, q>> *)
(* with mass = ln(p / q): sums are products, and x > y / 2 is              *)
(* (px / qx)^2 > py / qy.                                                  *)
(***************************************************************************)

RECURSIVE Gcd(_, _)
Gcd(a, b) == IF b = 0 THEN a ELSE Gcd(b, a % b)

\* The fraction in lowest terms.
Reduce(f) == LET g == Gcd(f[1], f[2]) IN <<f[1] \div g, f[2] \div g>>

\* name_mass[name_id] += idf
MassAdd(f, g) == Reduce(<<f[1] * g[1], f[2] * g[2]>>)

\* mass f > mass g
MassGreater(f, g) == f[1] * g[2] > g[1] * f[2]

\* v > max(name_mass.values()) / 2
AboveThreshold(v, top) ==
    LET a == Reduce(<<v[1], top[1]>>)
        b == Reduce(<<top[2], v[2]>>)
    IN  a[1] * v[1] * b[1] > a[2] * v[2] * b[2]

\* math.log1p(self.num_unique_names / len(name_ids))
Idf(n, k) == Reduce(<<k + n, k>>)

\* The punctuation character of the fixtures.
Punct == {"-"}

\* str.strip() for the blank
RECURSIVE Strip(_)
Strip(s) ==
    IF s = <<>> THEN s
    ELSE IF Head(s) = " " THEN Strip(Tail(s))
    ELSE IF s[Len(s)] = " " THEN Strip(SubSeq(s, 1, Len(s) - 1))
    ELSE s

\* String.replace_unicode_punct
ReplaceUnicodePunct(s) == Strip([i \in DOMAIN s |-> IF s[i] \in Punct THEN " " ELSE s[i]])

\* NgramMemoryNameIndex._format_string
FormatString(s) == <<"_">> \o Replace(Lower(ReplaceUnicodePunct(s)), " ", "_") \o <<"_">>

\* String.ngrams
Ngrams(s, n) == [i \in 1..Max2(Len(s) - n + 1, 0) |-> SubSeq(s, i, i + n - 1)]

RECURSIVE Flatten(_)
Flatten(seqs) == IF seqs = <<>> THEN <<>> ELSE Head(seqs) \o Flatten(Tail(seqs))

\* An entity of the KB; names[1] is the canonical name.
KBEntity(id, type, names) == [id |-> id, type |-> type, name |-> names[1], names |-> names]

\* MemoryKB.get_entities
GetEntities(k, ids) ==
    SelectSeq(ids, LAMBDA x : \E i \in DOMAIN k : k[i].id = x)

\* ExactMatchMemoryNameIndex._build_index, read at index[entity_type][name]:
\* the ids appended under the lower-cased name, in the order of the build.
ExactIndex(k, entity_type, name) ==
    Flatten([i \in DOMAIN k |->
        IF k[i].type # entity_type THEN <<>>
        ELSE Flatten([j \in DOMAIN k[i].names |->
                 IF Lower(k[i].names[j]) = Lower(name) THEN <<k[i].id>> ELSE <<>>])])

\* ExactMatchMemoryNameIndex.find
ExactMatchFind(k, name, entity_type, limit) ==
    IF ExactIndex(k, entity_type, name) # <<>>
    THEN GetEntities(k, ExactIndex(k, entity_type, name))
    ELSE <<>>

\* NgramMemoryNameIndex._build_index: what is appended, in the order of the
\* build; a name_id is <<entity.id, i>>.
Postings(k, n) ==
    Flatten([e \in DOMAIN k |->
        Flatten([i \in DOMAIN k[e].names |->
            LET grams == Ngrams(FormatString(k[e].names[i]), n)
            IN  [g \in DOMAIN grams |->
                    [type |-> k[e].type, ngram |-> grams[g], name_id |-> <<k[e].id, i - 1>>]]])])

\* self.index[entity_type][ngram]
IndexList(k, n, entity_type, ngram) ==
    LET hits == SelectSeq(Postings(k, n),
                          LAMBDA p : p.type = entity_type /\ p.ngram = ngram)
    IN  [i \in DOMAIN hits |-> hits[i].name_id]

\* self.num_unique_names
NumUniqueNames(k) ==
    Cardinality(UNION {{Lower(k[e].names[i]) : i \in DOMAIN k[e].names} : e \in DOMAIN k})

\* name_mass as the list of its keys in insertion order and the masses.
EmptyMass == [keys |-> <<>>, mass |-> <<>>]

\* name_mass[name_id] += idf on the defaultdict
MassBump(nm, name_id, idf) ==
    IF \E i \in DOMAIN nm.keys : nm.keys[i] = name_id
    THEN [nm EXCEPT !.mass = [i \in DOMAIN nm.mass |->
             IF nm.keys[i] = name_id THEN MassAdd(nm.mass[i], idf) ELSE nm.mass[i]]]
    ELSE [keys |-> Append(nm.keys, name_id), mass |-> Append(nm.mass, idf)]

\* for name_id in name_ids: name_mass[name_id] += idf
RECURSIVE MassBumpAll(_, _, _, _)
MassBumpAll(nm, name_ids, idf, j) ==
    IF j > Len(name_ids) THEN nm
    ELSE MassBumpAll(MassBump(nm, name_ids[j], idf), name_ids, idf, j + 1)

\* for ngram in ngrams: ... (lines 346-352)
RECURSIVE MassLoop(_, _, _, _, _, _)
MassLoop(k, n, entity_type, ngrams, g, nm) ==
    IF g > Len(ngrams) THEN nm
    ELSE LET name_ids == IndexList(k, n, entity_type, ngrams[g])
         IN  IF Len(name_ids) = 0
             THEN MassLoop(k, n, entity_type, ngrams, g + 1, nm)
             ELSE MassLoop(k, n, entity_type, ngrams, g + 1,
                           MassBumpAll(nm, name_ids, Idf(NumUniqueNames(k), Len(name_ids)), 1))

\* max(name_mass.values())
RECURSIVE MaxMass(_, _, _)
MaxMass(mass, i, best) ==
    IF i > Len(mass) THEN best
    ELSE MaxMass(mass, i + 1, IF MassGreater(mass[i], best) THEN mass[i] ELSE best)

\* sorted(top, key=top.get, reverse=True): stable, the greater mass first.
RECURSIVE SortedByMass(_, _)
SortedByMass(items, acc) ==
    IF items = <<>> THEN acc
    ELSE LET x == Head(items)
             before == Cardinality({i \in DOMAIN acc : ~MassGreater(x.mass, acc[i].mass)})
         IN  SortedByMass(Tail(items),
                          SubSeq(acc, 1, before) \o <<x>> \o SubSeq(acc, before + 1, Len(acc)))

\* Mutant: top is cut to limit whatever limit is.
CutToLimitAlways(top, limit) == SubSeq(top, 1, Min2(limit, Len(top)))

\* if limit: top = top[:limit]
CutToLimit(top, limit) ==
    IF limit # 0 THEN SubSeq(top, 1, Min2(limit, Len(top))) ELSE top

\* MemoryKB.get_entity: the id of the entity, None when the KB has none.
GetEntity(k, id) == IF \E i \in DOMAIN k : k[i].id = id THEN id ELSE None

\* NgramMemoryNameIndex.find: sorted is top before the cut, top after it.
NgramFind(k, n, name, entity_type, limit) ==
    LET ngrams == Ngrams(FormatString(name), n)
        nm == MassLoop(k, n, entity_type, ngrams, 1, EmptyMass)
    IN  IF Len(nm.keys) = 0
        THEN [returned |-> TRUE, sorted |-> <<>>, top |-> <<>>, entities |-> <<>>]
        ELSE LET most == MaxMass(nm.mass, 2, nm.mass[1])
                 items == [i \in DOMAIN nm.keys |-> [name_id |-> nm.keys[i], mass |-> nm.mass[i]]]
                 kept == SelectSeq(items, LAMBDA x : AboveThreshold(x.mass, most))
                 sorted == SortedByMass(kept, <<>>)
                 top == CutToLimit(sorted, limit)
             IN  [returned |-> TRUE,
                  sorted |-> [i \in DOMAIN sorted |-> sorted[i].name_id],
                  top |-> [i \in DOMAIN top |-> top[i].name_id],
                  entities |-> [i \in DOMAIN top |-> GetEntity(k, top[i].name_id[1])]]


\* A KB whose names differ by case, over two types.
KBCase ==
    <<KBEntity("k1", "PER", <<sAl, sAL>>),
      KBEntity("k2", "PER", <<sAL>>),
      KBEntity("k3", "ORG", <<sAl>>),
      KBEntity("k4", "PER", <<sJoS>>)>>

\* A KB with a name that repeats an n-gram.
KBRepeat ==
    <<KBEntity("k1", "PER", <<<<"a", "a">>>>),
      KBEntity("k2", "PER", <<<<"a">>>>),
      KBEntity("k3", "PER", <<<<"a", "a", "b">>>>),
      KBEntity("k4", "PER", <<<<"a", "a", "a", "a", "a", "a", "a">>>>)>>

\* A KB whose entities share names and parts of names.
KBShared ==
    <<KBEntity("k1", "PER", <<sJoS, sXo>>),
      KBEntity("k2", "PER", <<<<"J", "o", "-", "S">>>>),
      KBEntity("k3", "PER", <<sjos, sAl>>),
      KBEntity("k4", "ORG", <<sJoS>>)>>

KBs == {KBCase, KBRepeat, KBShared}

\* ExactMatchMemoryNameIndex._build_index: the keys each CaseInsensitiveDict
\* stores and the list under each
ExactBuildIndex(k) ==
    UNION {{[type |-> k[i].type, key |-> Lower(k[i].names[j]),
             list |-> ExactIndex(k, k[i].type, k[i].names[j])] : j \in DOMAIN k[i].names} :
           i \in DOMAIN k}

\* NgramMemoryNameIndex._build_index: the keys each defaultdict stores and
\* the list under each
NgramBuildIndex(k, n) ==
    {[type |-> p.type, key |-> p.ngram, list |-> IndexList(k, n, p.type, p.ngram)] :
        p \in Range(Postings(k, n))}

\* name_ids = self.index[entity_type][ngram] for every ngram: the
\* defaultdict stores a missing key with the empty list of its factory
IndexLookups(index, entity_type, ngrams) ==
    index \cup
    {[type |-> entity_type, key |-> ngrams[g], list |-> <<>>] :
        g \in {x \in DOMAIN ngrams :
                  ~\E e \in index : e.type = entity_type /\ e.key = ngrams[x]}}

\* The names find is called with on a KB.
QueryNames(k) ==
    IF k = KBRepeat THEN {<<"a", "a">>, <<"a">>, sXo}
    ELSE {sAl, sAL, sJoS, sjos, sXo, <<"a", "a">>}

\* find(name, entity_type, limit=25)
DefaultLimit == 25

Limits == {0, 1, 2, DefaultLimit}

NgramSizes == {2, 3, 4}

\* A find that has not returned.
NoFind == [returned |-> FALSE, sorted |-> <<>>, top |-> <<>>, entities |-> <<>>]

\* The two indexes built over one KB, and the arguments of one find.
IndexInit ==
    /\ kb \in KBs
    /\ ngram_size \in NgramSizes
    /\ query \in [name : QueryNames(kb), entity_type : {"PER", "ORG"}, limit : Limits]
    /\ exact_ret = NoFind
    /\ ngram_ret = NoFind
    /\ exact_index = ExactBuildIndex(kb)
    /\ ngram_index = NgramBuildIndex(kb, ngram_size)

\* No index is in use.
IndexIdle ==
    /\ kb = <<>>
    /\ ngram_size = 4
    /\ query = [name |-> <<>>, entity_type |-> "PER", limit |-> DefaultLimit]
    /\ exact_ret = NoFind
    /\ ngram_ret = NoFind
    /\ exact_index = {}
    /\ ngram_index = {}

\* ExactMatchMemoryNameIndex(kb).find(name, entity_type, limit)
ExactMatchMemoryNameIndexFind ==
    /\ ~exact_ret.returned
    /\ exact_ret' = [NoFind EXCEPT !.returned = TRUE,
                        !.entities = ExactMatchFind(kb, query.name, query.entity_type, query.limit)]
    /\ UNCHANGED <<kb, ngram_size, query, ngram_ret, exact_index, ngram_index>>
    /\ UNCHANGED <<rvars, gvars, cvars, dvars, svars, bvars, fvars, ovars, avars>>

\* NgramMemoryNameIndex(kb, ngram_size).find(name, entity_type, limit)
NgramMemoryNameIndexFind ==
    /\ ~ngram_ret.returned
    /\ ngram_ret' = NgramFind(kb, ngram_size, query.name, query.entity_type, query.limit)
    /\ ngram_index' = IndexLookups(ngram_index, query.entity_type,
                                   Ngrams(FormatString(query.name), ngram_size))
    /\ UNCHANGED <<kb, ngram_size, query, exact_ret, exact_index>>
    /\ UNCHANGED <<rvars, gvars, cvars, dvars, svars, bvars, fvars, ovars, avars>>

IndexNext == ExactMatchMemoryNameIndexFind \/ NgramMemoryNameIndexFind

(***************************************************************************)
(* Coreference stages (hamerkop/coref.py)                                  *)
(*                                                                         *)
(* A MentionChain object is a record of cid, its identity, and of its list *)
(* mentions; chains are compared by identity, as Python compares objects   *)
(* without __eq__.  A mention is a record of id, string and type.          *)
(***************************************************************************)
Mention(id, string, type) == [id |-> id, string |-> string, type |-> type]

MentionChain(cid, mentions) == [cid |-> cid, mentions |-> mentions]

\* MentionChain.type: the type of the first mention
CType(chain) == chain.mentions[1].type

\* MentionChain.name: max([x.string for x in self.mentions], key=len)
CName(chain) ==
    LET strings == [i \in DOMAIN chain.mentions |-> chain.mentions[i].string]
    IN MaxByLen(strings, 2, strings[1])

Cids(chains) == [i \in DOMAIN chains |-> chains[i].cid]

\* str.upper() on the letters of the fixtures
UpperChar(ch) ==
    CASE ch = "a" -> "A" [] ch = "h" -> "H" [] ch = "j" -> "J"
      [] ch = "l" -> "L" [] ch = "o" -> "O" [] ch = "s" -> "S"
      [] ch = "x" -> "X" [] OTHER -> ch

Upper(s) == [i \in DOMAIN s |-> UpperChar(s[i])]

\* str.split(): the runs of characters between blanks
RECURSIVE Split(_)
Split(s) ==
    IF s = <<>> THEN <<>>
    ELSE IF s[1] = " " THEN Split(Tail(s))
    ELSE LET blanks == {i \in DOMAIN s : s[i] = " "}
             stop == IF blanks = {} THEN Len(s) + 1
                     ELSE CHOOSE i \in blanks : \A j \in blanks : i <= j
         IN <<SubSeq(s, 1, stop - 1)>> \o Split(SubSeq(s, stop, Len(s)))

\* ' ' in s
HasBlank(s) == " " \in Range(s)

\* Mutant: to_merge is used as passed, without list(set(...)).
ListOrdersKeepRepeats(to_merge) == {to_merge}

\* Mutant: the merged chains stay in the list.
MergeKeepsOriginals(chains, order, cid) ==
    chains \o <<[cid |-> cid, mentions |-> Flatten([i \in DOMAIN order |-> order[i].mentions])]>>

\* to_merge = list(set(to_merge)): the distinct chains, in any order
ListOrders(to_merge) ==
    LET S == Range(to_merge)
    IN {o \in [1..Cardinality(S) -> S] : \A i, j \in DOMAIN o : o[i] = o[j] => i = j}

\* sum([chain.mentions for chain in to_merge], [])
SumMentions(to_merge) == Flatten([i \in DOMAIN to_merge |-> to_merge[i].mentions])

\* CorefStage.merge, after to_merge = list(set(to_merge)) gave the list
\* order: the new document.mention_chains
Merge(chains, order, cid) ==
    SelectSeq(chains, LAMBDA x : x \notin Range(order))
        \o <<MentionChain(cid, SumMentions(order))>>

\* what a call of merge leaves in the log
MergeEntry(to_merge, order, cid) ==
    [given |-> Range(Cids(to_merge)),
     repeated |-> Len(to_merge) > Cardinality(Range(to_merge)),
     order |-> Cids(order),
     new |-> cid]

\* ExactMatchStage.update, first loop: chain_data as the list of its
\* [type, key, chains] in the order of insertion
RECURSIVE ChainData(_, _, _, _)
ChainData(chains, i, j, data) ==
    IF i > Len(chains) THEN data
    ELSE IF j > Len(chains[i].mentions) THEN ChainData(chains, i + 1, 1, data)
    ELSE LET m == chains[i].mentions[j]
             at == {n \in DOMAIN data :
                      data[n].type = m.type /\ data[n].key = Lower(m.string)}
             new == IF at = {}
                    THEN data \o <<[type |-> m.type, key |-> Lower(m.string),
                                    chains |-> <<chains[i]>>]>>
                    ELSE [n \in DOMAIN data |->
                            IF n \in at
                            THEN [data[n] EXCEPT !.chains = @ \o <<chains[i]>>]
                            ELSE data[n]]
         IN ChainData(chains, i, j + 1, new)

\* ExactMatchStage.update, second loop: for entity_type in chain_data, for
\* name, chains in its items: the lists with len(chains) > 1
ExactGroups(chains) ==
    LET data == ChainData(chains, 1, 1, <<>>)
        first(n) == \A k \in 1..(n - 1) : data[k].type # data[n].type
        heads == SelectSeq([n \in DOMAIN data |-> n], first)
        byType == Flatten([h \in DOMAIN heads |->
                     SelectSeq(data, LAMBDA d : d.type = data[heads[h]].type)])
        many == SelectSeq(byType, LAMBDA d : Len(d.chains) > 1)
    IN [n \in DOMAIN many |-> many[n].chains]

\* AcronymStage._get_acronym; <<>> stands for None, which update treats as
\* it treats the empty string
GetAcronym(chain, min_length) ==
    LET ok == {i \in DOMAIN chain.mentions :
                 /\ Len(chain.mentions[i].string) >= min_length
                 /\ Upper(chain.mentions[i].string) = chain.mentions[i].string}
    IN IF ok = {} THEN <<>>
       ELSE chain.mentions[CHOOSE i \in ok : \A j \in ok : i <= j].string

\* ''.join(word[0].upper() for word in mention.string.split())
Initials(s) == [i \in DOMAIN Split(s) |-> UpperChar(Split(s)[i][1])]

\* AcronymStage._is_match
AcronymIsMatch(acronym, chain) ==
    \E i \in DOMAIN chain.mentions : acronym = Initials(chain.mentions[i].string)

\* AcronymStage.update, first loop: possible_acronyms in insertion order
PossibleAcronyms(chains, min_length) ==
    LET has(c) == GetAcronym(c, min_length) # <<>>
        cs == SelectSeq(chains, has)
    IN [i \in DOMAIN cs |-> [chain |-> cs[i], name |-> GetAcronym(cs[i], min_length)]]

\* SingleTokenMatchStage._get_single_token_name; <<>> stands for None
GetSingleTokenName(chain) ==
    LET ok == {i \in DOMAIN chain.mentions : ~HasBlank(chain.mentions[i].string)}
    IN IF ok = {} THEN <<>>
       ELSE chain.mentions[CHOOSE i \in ok : \A j \in ok : i <= j].string

\* mention.string.split()[self.index], for an index the list has
TokenAt(s, index) ==
    IF index >= 0 THEN Split(s)[index + 1] ELSE Split(s)[Len(Split(s)) + index + 1]

\* Mutant: the entity types are not compared.
SingleTokenIsMatchAnyType(index, single_name, single_chain, chain) ==
    \E i \in DOMAIN chain.mentions :
        /\ HasBlank(chain.mentions[i].string)
        /\ Lower(single_name) = Lower(TokenAt(chain.mentions[i].string, index))

\* SingleTokenMatchStage._is_match
SingleTokenIsMatch(index, single_name, single_chain, chain) ==
    /\ CType(single_chain) = CType(chain)
    /\ \E i \in DOMAIN chain.mentions :
         /\ HasBlank(chain.mentions[i].string)
         /\ Lower(single_name) = Lower(TokenAt(chain.mentions[i].string, index))

\* SingleTokenMatchStage.update, first loop: single_token_name_chains
SingleTokenNameChains(chains) ==
    LET has(c) == GetSingleTokenName(c) # <<>>
        cs == SelectSeq(chains, has)
    IN [i \in DOMAIN cs |-> [chain |-> cs[i], name |-> GetSingleTokenName(cs[i])]]

\* list.remove(x): the list without the first element equal to x
ListRemove(list, x) ==
    LET at == {i \in DOMAIN list : list[i] = x}
        k == CHOOSE i \in at : \A j \in at : i <= j
    IN IF at = {} THEN list ELSE SubSeq(list, 1, k - 1) \o SubSeq(list, k + 1, Len(list))

(***************************************************************************)
(* The coreference stages as a state machine                               *)
(***************************************************************************)
\* The chain lists the stages are run on: (1) chains to merge by hand,
\* (2) chains of one mention each, (3) a chain of two names next to chains
\* of each of the names, (4) an acronym next to its expansion, per type,
\* (5) two acronyms of one expansion, (6) a chain that is both a single
\* token and a long name, (7) a chain of two single tokens.
Documents ==
    <<
      <<MentionChain(1, <<Mention("m1", sJoS, "PER"), Mention("m2", sjos, "PER")>>),
        MentionChain(2, <<Mention("m3", sAl, "PER")>>),
        MentionChain(3, <<Mention("m4", sXo, "PER")>>),
        MentionChain(4, <<Mention("m5", sAL, "ORG")>>)>>,
      <<MentionChain(1, <<Mention("m1", sJoS, "PER")>>),
        MentionChain(2, <<Mention("m2", <<"S">>, "PER")>>),
        MentionChain(3, <<Mention("m3", <<"A", "l", " ", "S", "o">>, "PER")>>),
        MentionChain(4, <<Mention("m4", sjos, "PER")>>),
        MentionChain(5, <<Mention("m5", sJoS, "ORG")>>),
        MentionChain(6, <<Mention("m6", <<"S", " ", "J", "o">>, "PER")>>)>>,
      <<MentionChain(1, <<Mention("m1", sAl, "PER"), Mention("m2", sJoS, "PER")>>),
        MentionChain(2, <<Mention("m3", <<"a", "l">>, "PER")>>),
        MentionChain(3, <<Mention("m4", sjos, "PER")>>)>>,
      <<MentionChain(1, <<Mention("m1", <<"S", "o", " ", "H", "a">>, "GPE"),
                          Mention("m2", <<"s", "o", " ", "h", "a">>, "GPE")>>),
        MentionChain(2, <<Mention("m3", <<"S", "H">>, "GPE")>>),
        MentionChain(3, <<Mention("m4", <<"S", "H">>, "ORG")>>),
        MentionChain(4, <<Mention("m5", sjos, "PER"), Mention("m6", sJoS, "PER")>>)>>,
      <<MentionChain(1, <<Mention("m1", <<"S", "H">>, "ORG")>>),
        MentionChain(2, <<Mention("m2", <<"S">>, "ORG")>>),
        MentionChain(3, <<Mention("m3", <<"S", "o", " ", "H", "a">>, "ORG")>>)>>,
      <<MentionChain(1, <<Mention("m1", <<"S">>, "PER")>>),
        MentionChain(2, <<Mention("m2", <<"J", "o">>, "PER"),
                          Mention("m3", <<"A", "l", " ", "S">>, "PER")>>),
        MentionChain(3, <<Mention("m4", <<"X", "o", " ", "J", "o">>, "PER")>>)>>,
      <<MentionChain(1, <<Mention("m1", <<"S">>, "PER"), Mention("m2", <<"J", "o">>, "PER")>>),
        MentionChain(2, <<Mention("m3", <<"A", "l", " ", "S">>, "PER")>>),
        MentionChain(3, <<Mention("m4", <<"X", "o", " ", "J", "o">>, "PER")>>)>>
    >>

\* The longest list to_merge that is passed to merge by hand.
MaxToMerge == 3

\* The stages with their parameters: AcronymStage(min_length),
\* SingleTokenMatchStage(index)
Stages ==
    {[kind |-> "exact", arg |-> 0]}
        \cup [kind : {"acronym"}, arg : {1, 2}]
        \cup [kind : {"single"}, arg : {0, -1}]

CorefInit(stages, docs, pc) ==
    /\ doc_chains \in docs
    /\ stage \in stages
    /\ spc = pc
    /\ pending = <<>>
    /\ local_chains = <<>>
    /\ next_cid = Len(doc_chains) + 1
    /\ doc0 = doc_chains
    /\ merges = <<>>
    /\ wrapper = [wrap |-> "none", over |-> {}]
    /\ other_chains = <<>>
    /\ stages_run = 0

CorefIdle == CorefInit({[kind |-> "none", arg |-> 0]}, {<<>>}, "start")

\* self.merge(document, to_merge), with the order that list(set(...)) gives
DoMerge(to_merge) ==
    \E order \in ListOrders(to_merge) :
        /\ doc_chains' = Merge(doc_chains, order, next_cid)
        /\ next_cid' = next_cid + 1
        /\ merges' = Append(merges, MergeEntry(to_merge, order, next_cid))

\* CorefStage.merge(document, to_merge), called with chains of the document
CorefStageMerge ==
    /\ stage.kind = "merge"
    /\ \E to_merge \in SeqsUpTo(Range(doc_chains), MaxToMerge) :
          /\ Cardinality(Range(to_merge)) >= 2
          /\ DoMerge(to_merge)
    /\ UNCHANGED <<stage, spc, pending, local_chains, doc0>>
    /\ UNCHANGED <<wrapper, other_chains, stages_run>>
    /\ UNCHANGED <<rvars, gvars, cvars, kvars, svars, bvars, fvars, ovars, avars>>

\* ExactMatchStage.update up to its second loop
ExactMatchStageUpdate ==
    /\ stage.kind = "exact" /\ spc = "start"
    /\ pending' = ExactGroups(doc_chains)
    /\ spc' = "loop"
    /\ UNCHANGED <<doc_chains, stage, local_chains, next_cid, doc0, merges>>
    /\ UNCHANGED <<wrapper, other_chains, stages_run>>
    /\ UNCHANGED <<rvars, gvars, cvars, kvars, svars, bvars, fvars, ovars, avars>>

\* ExactMatchStage.update, one round of the second loop
ExactMatchStageMerge ==
    /\ stage.kind = "exact" /\ spc = "loop" /\ pending # <<>>
    /\ DoMerge(Head(pending))
    /\ pending' = Tail(pending)
    /\ UNCHANGED <<stage, spc, local_chains, doc0>>
    /\ UNCHANGED <<wrapper, other_chains, stages_run>>
    /\ UNCHANGED <<rvars, gvars, cvars, kvars, svars, bvars, fvars, ovars, avars>>

\* AcronymStage.update up to its second loop
AcronymStageUpdate ==
    /\ stage.kind = "acronym" /\ spc = "start"
    /\ local_chains' = doc_chains
    /\ pending' = PossibleAcronyms(doc_chains, stage.arg)
    /\ spc' = "loop"
    /\ UNCHANGED <<doc_chains, stage, next_cid, doc0, merges>>
    /\ UNCHANGED <<wrapper, other_chains, stages_run>>
    /\ UNCHANGED <<rvars, gvars, cvars, kvars, svars, bvars, fvars, ovars, avars>>

\* AcronymStage.update, one round of the second loop
AcronymStageMerge ==
    /\ stage.kind = "acronym" /\ spc = "loop" /\ pending # <<>>
    /\ LET chain == Head(pending).chain
           acronym == Head(pending).name
           match == {i \in DOMAIN local_chains :
                       /\ CType(chain) = CType(local_chains[i])
                       /\ AcronymIsMatch(acronym, local_chains[i])}
           other_chain == local_chains[CHOOSE i \in match : \A j \in match : i <= j]
       IN IF match = {}
          THEN UNCHANGED <<doc_chains, next_cid, merges, local_chains>>
          ELSE /\ DoMerge(<<chain, other_chain>>)
               /\ local_chains' = ListRemove(local_chains, other_chain)
    /\ pending' = Tail(pending)
    /\ UNCHANGED <<stage, spc, doc0>>
    /\ UNCHANGED <<wrapper, other_chains, stages_run>>
    /\ UNCHANGED <<rvars, gvars, cvars, kvars, svars, bvars, fvars, ovars, avars>>

\* SingleTokenMatchStage.update up to its second loop
SingleTokenMatchStageUpdate ==
    /\ stage.kind = "single" /\ spc = "start"
    /\ pending' = SingleTokenNameChains(doc_chains)
    /\ spc' = "loop"
    /\ UNCHANGED <<doc_chains, stage, local_chains, next_cid, doc0, merges>>
    /\ UNCHANGED <<wrapper, other_chains, stages_run>>
    /\ UNCHANGED <<rvars, gvars, cvars, kvars, svars, bvars, fvars, ovars, avars>>

\* SingleTokenMatchStage.update, one round of the second loop
SingleTokenMatchStageMerge ==
    /\ stage.kind = "single" /\ spc = "loop" /\ pending # <<>>
    /\ LET single_chain == Head(pending).chain
           single_name == Head(pending).name
           matches == SelectSeq(doc_chains,
                        LAMBDA c : SingleTokenIsMatch(stage.arg, single_name, single_chain, c))
       IN IF matches = <<>>
          THEN UNCHANGED <<doc_chains, next_cid, merges>>
          ELSE DoMerge(Append(matches, single_chain))
    /\ pending' = Tail(pending)
    /\ UNCHANGED <<stage, spc, local_chains, doc0>>
    /\ UNCHANGED <<wrapper, other_chains, stages_run>>
    /\ UNCHANGED <<rvars, gvars, cvars, kvars, svars, bvars, fvars, ovars, avars>>

\* The most stages a CascadeCoref holds.
MaxStages == 2

\* The wrappers a stage of a CascadeCoref may have
Wrappers ==
    {[wrap |-> "none", over |-> {}]}
        \cup [wrap : {"type"}, over : {{"PER"}, {"ORG", "GPE"}}]
        \cup [wrap : {"lang"}, over : {{"en"}, {"so"}}]

\* CascadeCoref.coref, line 209: one chain per mention of document.mentions
Singletons(mentions) == [i \in DOMAIN mentions |-> MentionChain(i, <<mentions[i]>>)]

\* CascadeCoref.coref, lines 210-211: the next stage.update(document),
\* once the stage before has returned
CascadeCorefUpdate ==
    /\ spc = "next" \/ (spc = "loop" /\ pending = <<>> /\ wrapper.wrap # "type")
    /\ stages_run < MaxStages
    /\ stage' \in Stages
    /\ wrapper' \in Wrappers
    /\ spc' = IF wrapper'.wrap = "none" THEN "start" ELSE "wrap"
    /\ stages_run' = stages_run + 1
    /\ doc0' = doc_chains
    /\ merges' = <<>>
    /\ pending' = <<>>
    /\ local_chains' = <<>>
    /\ other_chains' = <<>>
    /\ UNCHANGED <<doc_chains, next_cid>>
    /\ UNCHANGED <<rvars, gvars, cvars, kvars, svars, bvars, fvars, ovars, avars>>

\* TypeSpecificStage.update up to self.stage.update(document)
TypeSpecificStageUpdate ==
    /\ spc = "wrap" /\ wrapper.wrap = "type"
    /\ other_chains' = SelectSeq(doc_chains, LAMBDA x : CType(x) \notin wrapper.over)
    /\ doc_chains' = SelectSeq(doc_chains, LAMBDA x : CType(x) \in wrapper.over)
    /\ spc' = "start"
    /\ UNCHANGED <<stage, pending, local_chains, next_cid, doc0, merges, wrapper, stages_run>>
    /\ UNCHANGED <<rvars, gvars, cvars, kvars, svars, bvars, fvars, ovars, avars>>

\* TypeSpecificStage.update after self.stage.update(document) has returned
TypeSpecificStageExtend ==
    /\ spc = "loop" /\ pending = <<>> /\ wrapper.wrap = "type"
    /\ doc_chains' = doc_chains \o other_chains
    /\ spc' = "next"
    /\ UNCHANGED <<stage, pending, local_chains, next_cid, doc0, merges, wrapper,
                   other_chains, stages_run>>
    /\ UNCHANGED <<rvars, gvars, cvars, kvars, svars, bvars, fvars, ovars, avars>>

\* LanguageSpecificStage.update
LanguageSpecificStageUpdate ==
    /\ spc = "wrap" /\ wrapper.wrap = "lang"
    /\ spc' = IF lang \in wrapper.over THEN "start" ELSE "next"
    /\ UNCHANGED <<doc_chains, stage, pending, local_chains, next_cid, doc0, merges,
                   wrapper, other_chains, stages_run>>
    /\ UNCHANGED <<rvars, gvars, cvars, kvars, svars, bvars, fvars, ovars, avars>>

StagesNext ==
    \/ ExactMatchStageUpdate
    \/ ExactMatchStageMerge
    \/ AcronymStageUpdate
    \/ AcronymStageMerge
    \/ SingleTokenMatchStageUpdate
    \/ SingleTokenMatchStageMerge

CorefNext ==
    \/ CascadeCorefUpdate
    \/ TypeSpecificStageUpdate
    \/ TypeSpecificStageExtend
    \/ LanguageSpecificStageUpdate
    \/ StagesNext

(***************************************************************************)
(* CorefScorer (hamerkop/coref.py)                                         *)
(*                                                                         *)
(* A cluster is the list of its mention ids; a mention map is the function *)
(* from the mention ids it knows to the number n of the cluster id 'C' n.  *)
(* A quotient x / y of b3 is kept as the fraction <<x, y>>.                *)
(***************************************************************************)
\* CorefScorer._create_mention_map
RECURSIVE CreateMentionMap(_, _, _)
CreateMentionMap(clusters, cluster_counter, mention_map) ==
    IF cluster_counter > Len(clusters) THEN mention_map
    ELSE LET cluster == Range(clusters[cluster_counter])
         IN CreateMentionMap(clusters, cluster_counter + 1,
                [m \in DOMAIN mention_map \cup cluster |->
                    IF m \in cluster THEN cluster_counter ELSE mention_map[m]])

\* Mutant: a mention that is not in mention_map is not taken off tp.
RECURSIVE MucKeepsAbsent(_, _, _, _)
MucKeepsAbsent(clusters, mention_map, tp, p) ==
    IF clusters = <<>> THEN <<tp, p>>
    ELSE LET c == Head(clusters)
             linked == {mention_map[c[i]] : i \in {k \in DOMAIN c : c[k] \in DOMAIN mention_map}}
         IN MucKeepsAbsent(Tail(clusters), mention_map,
                           tp + Len(c) - Cardinality(linked), p + Len(c) - 1)

\* CorefScorer.muc: the loop over the clusters, from tp and p
RECURSIVE Muc(_, _, _, _)
Muc(clusters, mention_map, tp, p) ==
    IF clusters = <<>> THEN <<tp, p>>
    ELSE LET c == Head(clusters)
             linked == {mention_map[c[i]] : i \in {k \in DOMAIN c : c[k] \in DOMAIN mention_map}}
             absent == {i \in DOMAIN c : c[i] \notin DOMAIN mention_map}
         IN Muc(Tail(clusters), mention_map,
                tp + Len(c) - Cardinality(absent) - Cardinality(linked),
                p + Len(c) - 1)

\* num += correct / len(c)
FracAdd(f, g) == Reduce(<<f[1] * g[2] + g[1] * f[2], f[2] * g[2]>>)

\* CorefScorer.b3: the loop over the clusters, from num and dem; the test
\* len(c2) != 1 is on the cluster id 'C' n, which is never one character
RECURSIVE B3(_, _, _, _)
B3(clusters, mention_map, num, dem) ==
    IF clusters = <<>> THEN <<num, dem>>
    ELSE LET c == Head(clusters)
             mapped == {i \in DOMAIN c : c[i] \in DOMAIN mention_map}
             gt_counts(c2) == Cardinality({i \in mapped : mention_map[c[i]] = c2})
             ids == {mention_map[c[i]] : i \in mapped}
             RECURSIVE squares(_)
             squares(S) == IF S = {} THEN 0
                           ELSE LET c2 == CHOOSE x \in S : TRUE
                                IN gt_counts(c2) * gt_counts(c2) + squares(S \ {c2})
         IN IF Len(c) = 1 THEN B3(Tail(clusters), mention_map, num, dem)
            ELSE B3(Tail(clusters), mention_map,
                    FracAdd(num, <<squares(ids), Len(c)>>), dem + Len(c))

\* The most clusters of a ground truth and of a document.
MaxClusters == 2

\* The mention ids that are scored
ScoredMentions == 1..4

\* The cluster lists: every way to put each mention into one of the
\* clusters or into none
Clusterings ==
    {LET cluster(k) == SelectSeq([m \in ScoredMentions |-> m], LAMBDA m : f[m] = k)
         all == [k \in 1..MaxClusters |-> cluster(k)]
     IN SelectSeq(all, LAMBDA c : c # <<>>) : f \in [ScoredMentions -> 0..MaxClusters]}

\* CorefScorer.__init__: the sums are 0
ScorerInit(clusterings) ==
    /\ gt_clusters \in clusterings
    /\ predicted_clusters \in clusterings
    /\ metric \in {"muc", "b3"}
    /\ scores = [updated |-> FALSE, precision |-> <<0, 0>>, recall |-> <<0, 0>>]

ScorerIdle == ScorerInit({<<>>}) /\ metric = "muc"

\* CorefScorer.update and _update_metrics on the first document
CorefScorerUpdate ==
    /\ ~scores.updated
    /\ LET predicted_mention_map == CreateMentionMap(predicted_clusters, 1, <<>>)
           gt_mention_map == CreateMentionMap(gt_clusters, 1, <<>>)
       IN scores' =
            IF metric = "muc"
            THEN [updated |-> TRUE,
                  precision |-> Muc(predicted_clusters, gt_mention_map, 0, 0),
                  recall |-> Muc(gt_clusters, predicted_mention_map, 0, 0)]
            ELSE [updated |-> TRUE,
                  precision |-> B3(predicted_clusters, gt_mention_map, <<0, 1>>, 0),
                  recall |-> B3(gt_clusters, predicted_mention_map, <<0, 1>>, 0)]
    /\ UNCHANGED <<gt_clusters, predicted_clusters, metric>>
    /\ UNCHANGED <<rvars, gvars, cvars, kvars, dvars, bvars, fvars, ovars, avars>>

(***************************************************************************)
(* Loading a KB: MemoryKB.__init__ of kb.py, EntityLoader.load of io.py    *)
(***************************************************************************)

\* The positional arguments Entity.__init__ takes after self
EntityParams == 6

\* The keys of EntityCreator.create in kb.py: one value of data per key
MemoryKBKeys == 9

\* ENTITY_KEYS of EntityCreator in io.py
EntityKeys == 5

MaxEntityRows == 2
MaxAltRows == 2
MaxPasses == 2

\* The rows of the entities file after its header: the ID, the name, and
\* what the entity filter answers for the row
EntityRows ==
    {[id |-> "e1", name |-> "A", keep |-> "True"],
     [id |-> "e1", name |-> "A", keep |-> "None"],
     [id |-> "e2", name |-> "B", keep |-> "True"],
     [id |-> "e2", name |-> "B", keep |-> "False"]}

\* The rows of the alternate names file after its header: the ID, the
\* name, and what the name filter answers for the name
AltNameRows ==
    {[id |-> "e1", name |-> "C", keep |-> "True"],
     [id |-> "e1", name |-> "A", keep |-> "True"],
     [id |-> "e1", name |-> "X", keep |-> "False"],
     [id |-> "e2", name |-> "C", keep |-> "True"],
     [id |-> "e3", name |-> "C", keep |-> "True"]}

\* Entity(*data) after data = [row[key] for key in keys]
EntityCreatorCreate(keys, row) ==
    IF keys > EntityParams
    THEN [raised |-> TRUE, entity |-> [id |-> row.id, name |-> row.name, names |-> {}]]
    ELSE [raised |-> FALSE, entity |-> [id |-> row.id, name |-> row.name, names |-> {row.name}]]

\* entities[entity.id] = entity
SetEntity(dict, e) ==
    IF \E i \in DOMAIN dict : dict[i].id = e.id
    THEN [i \in DOMAIN dict |-> IF dict[i].id = e.id THEN e ELSE dict[i]]
    ELSE Append(dict, e)

\* _load_entities from row i on: the dict, or the exception of create
RECURSIVE LoadEntities(_, _, _, _, _)
LoadEntities(rows, i, has_filter, keys, dict) ==
    IF i > Len(rows) THEN [raised |-> FALSE, entities |-> dict]
    ELSE IF has_filter /\ rows[i].keep # "True"
    THEN LoadEntities(rows, i + 1, has_filter, keys, dict)
    ELSE LET created == EntityCreatorCreate(keys, rows[i])
         IN IF created.raised THEN [raised |-> TRUE, entities |-> <<>>]
            ELSE LoadEntities(rows, i + 1, has_filter, keys, SetEntity(dict, created.entity))

\* _load_alt_names from row i on
RECURSIVE LoadAltNames(_, _, _, _)
LoadAltNames(rows, i, has_filter, dict) ==
    IF i > Len(rows) THEN dict
    ELSE IF (\E k \in DOMAIN dict : dict[k].id = rows[i].id)
            /\ ~(has_filter /\ rows[i].keep # "True")
    THEN LoadAltNames(rows, i + 1, has_filter,
             [k \in DOMAIN dict |->
                 IF dict[k].id = rows[i].id
                 THEN [dict[k] EXCEPT !.names = @ \cup {rows[i].name}]
                 ELSE dict[k]])
    ELSE LoadAltNames(rows, i + 1, has_filter, dict)

\* The loader before it reads its two files
LoadInit(loaders) ==
    /\ loader \in loaders
    /\ streams \in [entities : SeqsUpTo(EntityRows, MaxEntityRows),
                    alt_names : SeqsUpTo(AltNameRows, MaxAltRows)]
    /\ load_filters \in [entity : BOOLEAN, name : BOOLEAN]
    /\ entities = <<>>
    /\ load_pc = "start"
    /\ alt_passes = 0

\* No KB is loaded.
LoadIdle ==
    /\ loader = "none"
    /\ streams = [entities |-> <<>>, alt_names |-> <<>>]
    /\ load_filters = [entity |-> FALSE, name |-> FALSE]
    /\ entities = <<>>
    /\ load_pc = "start"
    /\ alt_passes = 0

\* MemoryKB(entities_fp, alt_names_fp, entity_filter, name_filter, cache=False)
MemoryKBInit ==
    /\ loader = "MemoryKB" /\ load_pc = "start"
    /\ LET loaded == LoadEntities(streams.entities, 1, load_filters.entity, MemoryKBKeys, <<>>)
       IN IF loaded.raised
          THEN load_pc' = "TypeError" /\ UNCHANGED <<entities, alt_passes>>
          ELSE /\ entities' = LoadAltNames(streams.alt_names, 1, load_filters.name, loaded.entities)
               /\ load_pc' = "done"
               /\ alt_passes' = 1
    /\ UNCHANGED <<loader, streams, load_filters>>
    /\ UNCHANGED <<rvars, gvars, cvars, kvars, dvars, svars, fvars, ovars, avars>>

\* EntityLoader(entities_fp, alt_names_fp, entity_filter, name_filter).load()
EntityLoaderLoad ==
    /\ loader = "EntityLoader" /\ load_pc = "start"
    /\ LET loaded == LoadEntities(streams.entities, 1, load_filters.entity, EntityKeys, <<>>)
       IN IF loaded.raised
          THEN load_pc' = "TypeError" /\ UNCHANGED <<entities, alt_passes>>
          ELSE /\ entities' = LoadAltNames(streams.alt_names, 1, load_filters.name, loaded.entities)
               /\ load_pc' = "done"
               /\ alt_passes' = 1
    /\ UNCHANGED <<loader, streams, load_filters>>
    /\ UNCHANGED <<rvars, gvars, cvars, kvars, dvars, svars, fvars, ovars, avars>>

\* _load_alt_names on the same alternate names once more
LoadAltNamesAgain ==
    /\ load_pc = "done" /\ alt_passes < MaxPasses
    /\ entities' = LoadAltNames(streams.alt_names, 1, load_filters.name, entities)
    /\ alt_passes' = alt_passes + 1
    /\ UNCHANGED <<loader, streams, load_filters, load_pc>>
    /\ UNCHANGED <<rvars, gvars, cvars, kvars, dvars, svars, fvars, ovars, avars>>

LoadNext == MemoryKBInit \/ EntityLoaderLoad \/ LoadAltNamesAgain

(***************************************************************************)
(* The cascades of filters of io.py                                        *)
(***************************************************************************)

MaxFilters == 3

\* What the filter of a member of a cascade returns
Answers == {"True", "False", "None"}

\* the mutant of the loop of filter: an answer of None is returned as well
RECURSIVE CascadeFilterReturnsNone(_, _, _)
CascadeFilterReturnsNone(fs, i, calls) ==
    IF i > Len(fs) THEN [result |-> "False", calls |-> calls]
    ELSE IF fs[i] = "None" /\ i = Len(fs)
    THEN [result |-> "None", calls |-> Append(calls, i)]
    ELSE IF fs[i] = "None" THEN CascadeFilterReturnsNone(fs, i + 1, Append(calls, i))
    ELSE [result |-> fs[i], calls |-> Append(calls, i)]

\* for f in self.filters, from filter i on
RECURSIVE CascadeFilter(_, _, _)
CascadeFilter(fs, i, calls) ==
    IF i > Len(fs) THEN [result |-> "False", calls |-> calls]
    ELSE IF fs[i] = "None" THEN CascadeFilter(fs, i + 1, Append(calls, i))
    ELSE [result |-> fs[i], calls |-> Append(calls, i)]

\* A cascade that has not answered.
NoAnswer == [returned |-> FALSE, result |-> "False", calls |-> <<>>]

\* A cascade over any list of filters
FiltersInit ==
    /\ filter_class \in {"CascadeEntityFilter", "CascadeNameFilter"}
    /\ filters \in SeqsUpTo(Answers, MaxFilters)
    /\ filter_ret = NoAnswer

\* No filter is in use.
FiltersIdle ==
    /\ filter_class = "CascadeEntityFilter"
    /\ filters = <<>>
    /\ filter_ret = NoAnswer

\* CascadeEntityFilter(filters).filter(row)
CascadeEntityFilterFilter ==
    /\ filter_class = "CascadeEntityFilter" /\ ~filter_ret.returned
    /\ LET r == CascadeFilter(filters, 1, <<>>)
       IN filter_ret' = [returned |-> TRUE, result |-> r.result, calls |-> r.calls]
    /\ UNCHANGED <<filter_class, filters>>
    /\ UNCHANGED <<rvars, gvars, cvars, kvars, dvars, svars, bvars, ovars, avars>>

\* CascadeNameFilter(filters).filter(name)
CascadeNameFilterFilter ==
    /\ filter_class = "CascadeNameFilter" /\ ~filter_ret.returned
    /\ LET r == CascadeFilter(filters, 1, <<>>)
       IN filter_ret' = [returned |-> TRUE, result |-> r.result, calls |-> r.calls]
    /\ UNCHANGED <<filter_class, filters>>
    /\ UNCHANGED <<rvars, gvars, cvars, kvars, dvars, svars, bvars, ovars, avars>>

FiltersNext == CascadeEntityFilterFilter \/ CascadeNameFilterFilter

(***************************************************************************)
(* Reading the ground truth: OutputReader.read of io.py                    *)
(***************************************************************************)

MaxRows == 2

\* EntityType.TYPES
EntityTypes == {"PER", "ORG", "GPE", "LOC"}

\* LinkType.NIL and LinkType.LINK
LinkTypes == {"NIL", "link"}

\* sub in s
IsIn(sub, s) == \E i \in 1..(Len(s) - Len(sub) + 1) : SubSeq(s, i, i + Len(sub) - 1) = sub

\* str.split('|')
RECURSIVE SplitBar(_)
SplitBar(s) ==
    LET bars == {i \in DOMAIN s : s[i] = "|"}
    IN IF bars = {} THEN <<s>>
       ELSE LET stop == CHOOSE i \in bars : \A j \in bars : i <= j
            IN <<SubSeq(s, 1, stop - 1)>> \o SplitBar(SubSeq(s, stop + 1, Len(s)))

\* The columns of a row that read uses: the offsets of the mention, the
\* KB ID and the entity type
GroundTruthRows ==
    [offsets : {<<0, 1>>, <<3, 4>>},
     kb_id : {<<"N", "I", "L", "1">>, <<"e", "1">>, <<"e", "1", "|", "e", "2">>},
     entity_type : {"PER", "GPE", "FOO"}]

\* Link(row[ENTITY_TYPE], link_type, links, cluster_id, name); a cluster_id
\* of None is <<>>
LinkOf(row) ==
    LET link_type == IF IsIn(<<"N", "I", "L">>, row.kb_id) THEN "NIL" ELSE "link"
    IN [entity_type |-> row.entity_type,
        link_type |-> link_type,
        links |-> IF link_type = "link" THEN SplitBar(row.kb_id) ELSE <<>>,
        cluster_id |-> IF link_type = "link" THEN <<>> ELSE row.kb_id]

\* data[doc_id][offsets] = Link(...) for the rows from i on
RECURSIVE ReadRows(_, _, _)
ReadRows(rows, i, data) ==
    IF i > Len(rows) THEN data
    ELSE LET item == [offsets |-> rows[i].offsets, link |-> LinkOf(rows[i])]
         IN ReadRows(rows, i + 1,
                IF \E k \in DOMAIN data : data[k].offsets = item.offsets
                THEN [k \in DOMAIN data |->
                         IF data[k].offsets = item.offsets THEN item ELSE data[k]]
                ELSE Append(data, item))

\* A read that has not returned.
NoData == [returned |-> FALSE, raised |-> FALSE, data |-> <<>>]

\* A ground truth file of one document
ReaderInit ==
    /\ gt_rows \in SeqsUpTo(GroundTruthRows, MaxRows)
    /\ gt_data = NoData

\* No ground truth is read.
ReaderIdle ==
    /\ gt_rows = <<>>
    /\ gt_data = NoData

\* OutputReader.read(fp)
OutputReaderRead ==
    /\ ~gt_data.returned
    /\ gt_data' = [returned |-> TRUE, raised |-> FALSE, data |-> ReadRows(gt_rows, 1, <<>>)]
    /\ UNCHANGED gt_rows
    /\ UNCHANGED <<rvars, gvars, cvars, kvars, dvars, svars, bvars, fvars, avars>>

(***************************************************************************)
(* Candidate lists as objects: CachingGenerator.process and the resolvers  *)
(*                                                                         *)
(* A list object is its place in heap; the cache and chain.candidates hold *)
(* places, so that a list changed in place changes for all its holders.    *)
(***************************************************************************)

\* Three classifiers: one rejecting every entity, one with a single best
\* entity, one that ties.
CascadeClassifiers ==
    {[e \in Entities |-> -1],
     [e \in Entities |-> IF e = "e123" THEN 1 ELSE -1],
     [e \in Entities |-> IF e = "e122" THEN -1 ELSE 0]}

MaxDocs == 2

\* The chains of every document: the same names and types in each
DocChains == <<"c1", "c2">>

\* The lists the wrapped generator may find for a chain
FoundLists == {<<"e122", "e123", "e124">>, <<"e124", "e123">>, <<>>}

\* What resolves a document: a built-in resolver, or a CascadeResolver of
\* a resolver that narrows and any other
ResolverLists ==
    {<<r>> : r \in Resolvers}
        \cup {<<Bare(a), Bare(b)>> : a \in {"ExactName", "Wikipedia"}, b \in BaseKinds}

\* The lists of the chains, read through chain.candidates
Contents(hp, refs) == [c \in Chains |-> hp[refs[c]]]

\* Mutant: chain.candidates[:] = matches, the list is changed in place.
RebindInPlace(hp, ref, items) == [heap |-> [hp EXCEPT ![ref] = items], ref |-> ref]

\* chain.candidates = matches: the attribute is bound to the new list
Rebind(hp, ref, items) == [heap |-> Append(hp, items), ref |-> Len(hp) + 1]

\* The heap and the bindings after a resolver has left the chains of mc
\* with the lists new; a list equal to the one bound is taken to be it.
RECURSIVE RebindChains(_, _, _, _, _)
RebindChains(hp, refs, new, mc, i) ==
    IF i > Len(mc) THEN [heap |-> hp, refs |-> refs]
    ELSE IF new[mc[i]] = hp[refs[mc[i]]] THEN RebindChains(hp, refs, new, mc, i + 1)
    ELSE LET bound == Rebind(hp, refs[mc[i]], new[mc[i]])
         IN RebindChains(bound.heap, [refs EXCEPT ![mc[i]] = bound.ref], new, mc, i + 1)

\* What a resolver leaves: the chains still unresolved, and every entity
\* and list of candidates
Left(after) ==
    [mc |-> Unresolved(after.mention_chains, after.entity),
     entity |-> after.entity, candidates |-> after.candidates]

\* The document and the heap once the lists that were left are bound
Bound(left, bound) ==
    [mc |-> left.mc, entity |-> left.entity, refs |-> bound.refs, heap |-> bound.heap]

\* resolver.resolve(document) on the chains doc.mc, the candidates being
\* list objects
ResolveLists(doc, left) ==
    Bound(left, RebindChains(doc.heap, doc.refs, left.candidates, doc.mc, 1))

\* CascadeResolver(rs).resolve(document) from resolver i on, doc.mc being
\* document.mention_chains
RECURSIVE CascadeRun(_, _, _, _, _)
CascadeRun(rs, i, doc, doclang, cl) ==
    IF i > Len(rs) \/ doc.mc = <<>> THEN doc
    ELSE CascadeRun(rs, i + 1,
             ResolveLists(doc,
                 Left(Resolve(rs[i], Doc(doc.mc, doc.entity, Contents(doc.heap, doc.refs)),
                              doclang, cl))),
             doclang, cl)

\* for chain in document.mention_chains: chain.candidates = self.find(chain)
RECURSIVE ProcessChains(_, _, _, _, _)
ProcessChains(mc, i, hp, cch, refs) ==
    IF i > Len(mc) THEN [heap |-> hp, cache |-> cch, refs |-> refs]
    ELSE LET key == GenKey(mc[i])
         IN IF key \in DOMAIN cch
            THEN ProcessChains(mc, i + 1, hp, cch, [refs EXCEPT ![mc[i]] = cch[key]])
            ELSE ProcessChains(mc, i + 1, Append(hp, wrapped[mc[i]]),
                     [k \in DOMAIN cch \cup {key} |-> IF k = key THEN Len(hp) + 1 ELSE cch[k]],
                     [refs EXCEPT ![mc[i]] = Len(hp) + 1])

\* A CachingGenerator with an empty cache and the first document
ListsInit(found) ==
    /\ wrapped \in [Chains -> found]
    /\ heap = <<>>
    /\ cache_lists = <<>>
    /\ chain_lists = [c \in Chains |-> 0]
    /\ chain_entity = [c \in Chains |-> None]
    /\ apc = "process"
    /\ docs_done = 0

\* No list is in use.
ListsIdle == ListsInit({<<>>})

\* CachingGenerator.process(document) on a new document
CachingGeneratorProcess ==
    /\ apc = "process" /\ docs_done < MaxDocs
    /\ LET done == ProcessChains(DocChains, 1, heap, cache_lists, chain_lists)
       IN /\ heap' = done.heap
          /\ cache_lists' = done.cache
          /\ chain_lists' = done.refs
    /\ chain_entity' = [c \in Chains |-> None]
    /\ apc' = "resolve"
    /\ UNCHANGED <<wrapped, docs_done>>
    /\ UNCHANGED <<rvars, gvars, cvars, kvars, dvars, svars, bvars, fvars, ovars>>

\* resolver.resolve(document), the resolver being a built-in one or a
\* CascadeResolver over built-in ones
ResolverResolve ==
    /\ apc = "resolve"
    /\ \E rs \in ResolverLists,
          doclang \in {"en", "so"}, cl \in CascadeClassifiers :
          LET done == CascadeRun(rs, 1, [mc |-> DocChains, entity |-> chain_entity,
                                         refs |-> chain_lists, heap |-> heap], doclang, cl)
          IN /\ heap' = done.heap
             /\ chain_lists' = done.refs
             /\ chain_entity' = done.entity
    /\ apc' = "process"
    /\ docs_done' = docs_done + 1
    /\ UNCHANGED <<wrapped, cache_lists>>
    /\ UNCHANGED <<rvars, gvars, cvars, kvars, dvars, svars, bvars, fvars, ovars>>

ListsNext == CachingGeneratorProcess \/ ResolverResolve

(***************************************************************************)
(* Specifications                                                          *)
(***************************************************************************)

\* The resolvers of the cascade runs: every base resolver bare, and some wrapped.
CascadeResolvers ==
    {r \in Resolvers : r.wrap = "none"
                       \/ (r.wrap = "type" /\ r.kind \in {"First", "ExactName"})
                       \/ (r.wrap = "lang" /\ r.kind \in {"First", "Svm"})}

\* A cascade over any list of resolvers, on a document of two chains.
CascadeInit ==
    ResolveInit({"en", "so"}, SeqsUpTo(CascadeResolvers, MaxResolvers), CascadeClassifiers,
                {<<"e122", "e123", "e124">>, <<"e124", "e123">>},
                SeqsUpTo(Entities, MaxCandsOther), {None, "e123"})

InitCascade == CascadeInit /\ GeneratorsIdle /\ CachingInit /\ IndexIdle /\ CorefIdle
    /\ ScorerIdle
    /\ LoadIdle
    /\ FiltersIdle
    /\ ReaderIdle
    /\ ListsIdle

SpecCascade == InitCascade /\ [][ResolveNext]_vars

\* One resolver, or the pair of the cascade test, on any candidate lists.
ResolveOneInit ==
    \/ ResolveInit({"en"},
                   {<<Bare("ExactName")>>, <<Bare("ExactName"), Bare("Wikipedia")>>},
                   {[e \in Entities |-> -1]},
                   SeqsUpTo(Entities, MaxCands), SeqsUpTo(Entities, MaxCandsOther), {None})
    \/ ResolveInit({"en"}, {<<Bare("Svm")>>}, [Entities -> Scores],
                   SeqsUpTo(Entities, MaxCands), SeqsUpTo(Entities, MaxCandsOther), {None})

InitResolve == ResolveOneInit /\ GeneratorsIdle /\ CachingInit /\ IndexIdle /\ CorefIdle
    /\ ScorerIdle
    /\ LoadIdle
    /\ FiltersIdle
    /\ ReaderIdle
    /\ ListsIdle

SpecResolve == InitResolve /\ [][ResolveNext]_vars

\* One find of a CascadeGenerator and of a CombiningGenerator.
InitGenerators == GeneratorsInit /\ ResolveIdle /\ CachingInit /\ IndexIdle /\ CorefIdle
    /\ ScorerIdle
    /\ LoadIdle
    /\ FiltersIdle
    /\ ReaderIdle
    /\ ListsIdle

SpecGenerators == InitGenerators /\ [][GeneratorsNext]_vars

\* Any finds on one CachingGenerator.
InitCaching == CachingInit /\ ResolveIdle /\ GeneratorsIdle /\ IndexIdle /\ CorefIdle
    /\ ScorerIdle
    /\ LoadIdle
    /\ FiltersIdle
    /\ ReaderIdle
    /\ ListsIdle

SpecCaching == InitCaching /\ [][CachingNext]_vars

InitIndex == IndexInit /\ ResolveIdle /\ GeneratorsIdle /\ CachingInit /\ CorefIdle
    /\ ScorerIdle
    /\ LoadIdle
    /\ FiltersIdle
    /\ ReaderIdle
    /\ ListsIdle

\* One find on each of the two name indexes of a KB.
SpecIndex == InitIndex /\ [][IndexNext]_vars

\* CorefStage.merge called on a document, again and again
InitMerge ==
    /\ CorefInit({[kind |-> "merge", arg |-> 0]}, {Documents[1]}, "start")
    /\ ResolveIdle /\ GeneratorsIdle /\ CachingInit /\ IndexIdle
    /\ ScorerIdle
    /\ LoadIdle
    /\ FiltersIdle
    /\ ReaderIdle
    /\ ListsIdle

SpecMerge == InitMerge /\ [][CorefStageMerge]_vars

\* One stage runs on one document
InitStages ==
    /\ CorefInit(Stages, Range(Documents), "start")
    /\ ResolveIdle /\ GeneratorsIdle /\ CachingInit /\ IndexIdle
    /\ ScorerIdle
    /\ LoadIdle
    /\ FiltersIdle
    /\ ReaderIdle
    /\ ListsIdle

SpecStages == InitStages /\ [][StagesNext]_vars

\* CascadeCoref.coref on the mentions of a document
InitCoref ==
    /\ CorefInit({[kind |-> "none", arg |-> 0]},
                 {Singletons(Flatten([i \in DOMAIN d |-> d[i].mentions])) : d \in Range(Documents)},
                 "next")
    /\ ResolveIdle /\ GeneratorsIdle /\ CachingInit /\ IndexIdle
    /\ ScorerIdle
    /\ LoadIdle
    /\ FiltersIdle
    /\ ReaderIdle
    /\ ListsIdle

SpecCoref == InitCoref /\ [][CorefNext]_vars

\* One update of a CorefScorer
InitScorer ==
    /\ ScorerInit(Clusterings)
    /\ ResolveIdle /\ GeneratorsIdle /\ CachingInit /\ IndexIdle /\ CorefIdle
    /\ LoadIdle
    /\ FiltersIdle
    /\ ReaderIdle
    /\ ListsIdle

SpecScorer == InitScorer /\ [][CorefScorerUpdate]_vars

\* A document under CascadeCoref.coref, or a document under one
\* TypeSpecificResolver
TypeSpecificInit ==
    \/ /\ CorefInit({[kind |-> "none", arg |-> 0]},
                     {Singletons(Flatten([i \in DOMAIN d |-> d[i].mentions])) : d \in Range(Documents)},
                     "next")
       /\ ResolveIdle
    \/ /\ ResolveInit({"en"}, {<<r>> : r \in {x \in Resolvers : x.wrap = "type"}},
                       CascadeClassifiers,
                       {<<"e122", "e123", "e124">>, <<"e124", "e123">>},
                       SeqsUpTo(Entities, MaxCandsOther), {None, "e123"})
       /\ CorefIdle

InitTypeSpecific == TypeSpecificInit /\ GeneratorsIdle /\ CachingInit /\ IndexIdle
    /\ ScorerIdle
    /\ LoadIdle
    /\ FiltersIdle
    /\ ReaderIdle
    /\ ListsIdle

TypeSpecificNext == CorefNext \/ ResolveNext

SpecTypeSpecific == InitTypeSpecific /\ [][TypeSpecificNext]_vars

\* One load of a KB by either loader, and its alternate names read again
InitLoad ==
    /\ LoadInit({"MemoryKB", "EntityLoader"})
    /\ ResolveIdle /\ GeneratorsIdle /\ CachingInit /\ IndexIdle /\ CorefIdle
    /\ ScorerIdle
    /\ FiltersIdle
    /\ ReaderIdle
    /\ ListsIdle

SpecLoad == InitLoad /\ [][LoadNext]_vars

\* One call of filter on a cascade of either class
InitFilters ==
    /\ FiltersInit
    /\ ResolveIdle /\ GeneratorsIdle /\ CachingInit /\ IndexIdle /\ CorefIdle
    /\ ScorerIdle /\ LoadIdle
    /\ ReaderIdle
    /\ ListsIdle

SpecFilters == InitFilters /\ [][FiltersNext]_vars

\* One read of a ground truth file
InitReader ==
    /\ ReaderInit
    /\ ResolveIdle /\ GeneratorsIdle /\ CachingInit /\ IndexIdle /\ CorefIdle
    /\ ScorerIdle /\ LoadIdle /\ FiltersIdle
    /\ ListsIdle

SpecReader == InitReader /\ [][OutputReaderRead]_vars

\* Documents of the same chains, each processed by one CachingGenerator
\* and then resolved
InitLists ==
    /\ ListsInit(FoundLists)
    /\ ResolveIdle /\ GeneratorsIdle /\ CachingInit /\ IndexIdle /\ CorefIdle
    /\ ScorerIdle /\ LoadIdle /\ FiltersIdle /\ ReaderIdle

SpecLists == InitLists /\ [][ListsNext]_vars

(***************************************************************************)
(* Claims about the resolver cascade                                       *)
(***************************************************************************)

\* How often x occurs in the list s.
Count(s, x) == Cardinality({i \in DOMAIN s : s[i] = x})

\* The lists hold the same objects, each as often.
SameObjects(s1, s2) == Len(s1) = Len(s2) /\ \A x \in Range(s1) \cup Range(s2) : Count(s1, x) = Count(s2, x)

\* C1: in one CascadeResolver.resolve run, a chain that has a non-None entity
\* after resolver i has run is given to no resolver j > i, and from then on
\* (so also at the end of the run) its entity and its candidates are what
\* they were right after resolver i.
C1_ResolvedChainNotRevisited ==
    \A i \in DOMAIN log : \A c \in Chains :
        log[i].entity[c] # None =>
            /\ \A j \in (i + 1)..Len(log) : c \notin Range(log[j].given)
            /\ entity[c] = log[i].entity[c]
            /\ candidates[c] = log[i].candidates[c]

\* C1 witness: the run is over, a chain was resolved by the first resolver,
\* and the second resolver, a bare FirstResolver that did run, would have
\* picked another entity for it.
C1_Witness ==
    /\ rpc = "done"
    /\ Len(log) = 2
    /\ resolvers[2] = Bare("First")
    /\ \E c \in Chains :
          /\ entity0[c] = None
          /\ log[1].entity[c] # None
          /\ candidates[c][1] # entity[c]

\* C2: CascadeResolver.resolve never removes or duplicates chains: after the
\* call document.mention_chains holds the chain objects it held before the
\* call, each exactly once.
C2_ChainsKept ==
    rpc = "done" =>
        /\ SameObjects(mention_chains, chains0)
        /\ \A c \in Range(chains0) : Count(mention_chains, c) = 1

\* C2 witness: a run in which every chain, unresolved at the call, was
\* resolved before the last resolver of the list ran (the loop was left by
\* the break).
C2_Witness ==
    /\ rpc = "done"
    /\ ri <= Len(resolvers)
    /\ Len(resolved) = Len(chains0)
    /\ entity0 = [c \in Chains |-> None]

\* C3: for chains that start with entity None, after a cascade over built-in
\* resolvers the entity is None or an element of the chain's candidates as
\* they stand.
C3_EntityAmongCandidates ==
    \A c \in Chains :
        entity0[c] = None => (entity[c] = None \/ entity[c] \in Range(candidates[c]))

\* C3 witness: a chain whose candidates were narrowed by one resolver and
\* whose entity was then chosen by the next.
C3_Witness ==
    /\ rpc = "done"
    /\ \E c \in Chains :
          /\ entity0[c] = None
          /\ Len(log) = 2
          /\ log[1].entity[c] = None
          /\ Len(log[1].candidates[c]) < Len(candidates0[c])
          /\ entity[c] # None

\* The candidates of a list that match the chain by the claim's exact-name
\* rule: a shared string, compared case-insensitively, among the chain's
\* mention strings and their transliterated and translated variants.
C4_M(c, cands) ==
    SelectSeq(cands, LAMBDA e : CaseInsensitiveSet(ChainAllStrings(c))
                                   \cap CaseInsensitiveSet(EntityNames(e)) # {})

\* C4: ExactNameResolver.resolve, for each chain, with M the candidates whose
\* name set shares a string, compared case-insensitively, with the chain's
\* mention strings including their transliterated and translated variants:
\* |M| = 1 sets the entity to that candidate and leaves candidates; |M| > 1
\* narrows candidates to M and leaves the entity; |M| = 0 changes nothing.
C4_ExactNameRule ==
    (Len(log) >= 1 /\ resolvers[1] = Bare("ExactName")) =>
        \A c \in Range(log[1].given) :
            LET M == C4_M(c, candidates0[c])
                ent == log[1].entity[c]
                cands == log[1].candidates[c]
            IN  /\ Len(M) = 1 => ent = M[1] /\ cands = candidates0[c]
                /\ Len(M) > 1 => ent = entity0[c] /\ cands = M
                /\ Len(M) = 0 => ent = entity0[c] /\ cands = candidates0[c]

\* The candidates of a list that stage 1 matches by name, and those of a
\* list that stage 2 matches by URL.
C5_ByName(c, cands) == SelectSeq(cands, LAMBDA e : ExactNameMatch(c, e))

C5_ByUrl(c, cands) == SelectSeq(cands, LAMBDA e : WikipediaMatch(c, e))

\* C5: in CascadeResolver([ExactNameResolver(), WikipediaResolver()]), a chain
\* with two or more candidates matching by exact name, exactly one of which
\* also matches by URL, ends with that candidate as its entity and with the
\* exact-name matches as its candidates (so no candidate matching by URL alone
\* is selected).
C5_NameThenUrl ==
    (rpc = "done" /\ resolvers = <<Bare("ExactName"), Bare("Wikipedia")>>) =>
        \A c \in Chains :
            LET named == C5_ByName(c, candidates0[c])
                both == C5_ByUrl(c, named)
            IN  (Len(named) >= 2 /\ Len(both) = 1) =>
                    /\ entity[c] = both[1]
                    /\ candidates[c] = named

\* C5 witness: such a chain, whose candidates also held one matching by URL
\* and not by name.
C5_Witness ==
    /\ rpc = "done"
    /\ resolvers = <<Bare("ExactName"), Bare("Wikipedia")>>
    /\ \E c \in Chains :
          /\ Len(C5_ByName(c, candidates0[c])) >= 2
          /\ Len(C5_ByUrl(c, C5_ByName(c, candidates0[c]))) = 1
          /\ \E e \in Range(candidates0[c]) : WikipediaMatch(c, e) /\ ~ExactNameMatch(c, e)
          /\ entity[c] # None

\* C6: SvmResolver.resolve, for each chain with at least one candidate: when
\* every score is negative the entity is left as it was; otherwise the entity
\* becomes the candidate of maximum score, the earliest in the list among
\* those that tie.  The candidates are never changed.
C6_SvmRule ==
    (Len(log) >= 1 /\ resolvers[1] = Bare("Svm")) =>
        \A c \in Range(log[1].given) :
            LET cands == candidates0[c]
                sc == [i \in DOMAIN cands |-> classifier[cands[i]]]
            IN  cands # <<>> =>
                   /\ log[1].candidates[c] = cands
                   /\ IF \A i \in DOMAIN sc : sc[i] < 0
                      THEN log[1].entity[c] = entity0[c]
                      ELSE \E i \in DOMAIN sc :
                              /\ log[1].entity[c] = cands[i]
                              /\ \A j \in DOMAIN sc : sc[j] <= sc[i]
                              /\ \A j \in 1..(i - 1) : sc[j] < sc[i]

\* C6 witness: two different candidates tie for a non-negative maximum and
\* the earlier one was selected.
C6_Witness ==
    /\ Len(log) >= 1
    /\ resolvers[1] = Bare("Svm")
    /\ \E c \in Range(log[1].given) :
          \E i, j \in DOMAIN candidates0[c] :
              /\ i < j
              /\ candidates0[c][i] # candidates0[c][j]
              /\ classifier[candidates0[c][i]] = classifier[candidates0[c][j]]
              /\ classifier[candidates0[c][i]] >= 0
              /\ \A k \in DOMAIN candidates0[c] :
                     classifier[candidates0[c][k]] <= classifier[candidates0[c][i]]
              /\ entity[c] = candidates0[c][i]

(***************************************************************************)
(* Claims about the candidate generators                                   *)
(***************************************************************************)

\* The number of unique candidate ids the first k children return.
UniqueCount(gens, k) == Cardinality(UNION {Ids(gens[g]) : g \in 1..k})

\* C7: CascadeGenerator.find with threshold T calls its children in list
\* order and calls none once the running count of unique candidate ids
\* exceeds T; it returns one entity per id, for every id that a called child
\* returned, so all results of the child that crossed the threshold too.
C7_CascadeStopsAndKeeps ==
    cascade_ret.returned =>
        LET calls == cascade_ret.calls
            values == cascade_ret.values
        IN  /\ calls = [i \in 1..Len(calls) |-> i]
            /\ Len(calls) <= Len(generators)
            /\ \A i \in 2..Len(calls) : UniqueCount(generators, i - 1) <= num_candidates
            /\ Ids(values) = UNION {Ids(generators[g]) : g \in Range(calls)}
            /\ Cardinality(Ids(values)) = Len(values)
            /\ \A v \in Range(values) :
                   \E g \in Range(calls) : v \in Range(generators[g])

\* C7 witness: the second child called took the count from below the
\* threshold to above it, its results were all kept, and a third child
\* was not called.
C7_Witness ==
    /\ cascade_ret.returned
    /\ Len(generators) >= 3
    /\ cascade_ret.calls = <<1, 2>>
    /\ UniqueCount(generators, 1) < num_candidates
    /\ UniqueCount(generators, 2) > num_candidates
    /\ Ids(generators[2]) \subseteq Ids(cascade_ret.values)
    /\ Ids(generators[3]) \ Ids(cascade_ret.values) # {}

\* C8: CascadeGenerator.find stops early exactly when the count of unique
\* candidate ids exceeds the threshold: after children 1..k, child k+1 is
\* called if and only if the count so far is not greater than num_candidates.
C8_StopsOnlyWhenExceeded ==
    cascade_ret.returned =>
        \A k \in 1..(Len(generators) - 1) :
            k \in Range(cascade_ret.calls) =>
                ((k + 1) \in Range(cascade_ret.calls)
                    <=> UniqueCount(generators, k) <= num_candidates)

\* The key the claim names: the lower-cased best name and the entity type.
C9_Key(c) == <<Lower(ChainName(c)), ChainType(c)>>

\* The first find call with the key of call i.
C9_First(i) ==
    CHOOSE j \in 1..i : /\ C9_Key(finds[j].chain) = C9_Key(finds[i].chain)
                        /\ \A k \in 1..(j - 1) :
                               C9_Key(finds[k].chain) # C9_Key(finds[i].chain)

\* C9: over any find calls on one CachingGenerator, the wrapped generator's
\* find is called exactly once per distinct key (lower-cased best name,
\* entity type), on the first call with that key, and every later call with
\* the key returns the very list the first one returned.
C9_OncePerKey ==
    /\ Range(under_calls) = {i \in DOMAIN finds : C9_First(i) = i}
    /\ Cardinality(Range(under_calls)) = Len(under_calls)
    /\ \A i \in DOMAIN finds : finds[i].ret = finds[C9_First(i)].ret

\* C9 witness: three calls; the second, on another chain whose name differs
\* from the first's by case only, was served the first's list; the third, on
\* the same name with another type, reached the wrapped generator.
C9_Witness ==
    /\ Len(finds) = 3
    /\ finds[1].chain # finds[2].chain
    /\ ChainName(finds[1].chain) # ChainName(finds[2].chain)
    /\ C9_Key(finds[1].chain) = C9_Key(finds[2].chain)
    /\ finds[2].ret = finds[1].ret
    /\ ChainName(finds[3].chain) = ChainName(finds[1].chain)
    /\ ChainType(finds[3].chain) # ChainType(finds[1].chain)
    /\ under_calls = <<1, 3>>

\* The permutations of 1..n.
Perms(n) == {f \in [1..n -> 1..n] : \A i, j \in 1..n : f[i] = f[j] => i = j}

\* The last child returning the id, and the last entity with the id in a list.
LastChild(gens, id) == CHOOSE g \in DOMAIN gens :
    id \in Ids(gens[g]) /\ \A h \in (g + 1)..Len(gens) : id \notin Ids(gens[h])

LastWithId(list, id) == list[CHOOSE j \in DOMAIN list :
    list[j].id = id /\ \A k \in (j + 1)..Len(list) : list[k].id # id]

\* C10: CombiningGenerator.find calls every child exactly once, whatever the
\* earlier children returned, and returns exactly one entity per distinct id
\* any child returned; of several children returning an id the last one's
\* entity object is kept; the set of returned ids is the same for every order
\* of the children.
C10_CombinesAll ==
    combining_ret.returned =>
        LET values == combining_ret.values
        IN  /\ combining_ret.calls = [i \in DOMAIN generators |-> i]
            /\ Ids(values) = UNION {Ids(generators[g]) : g \in DOMAIN generators}
            /\ Cardinality(Ids(values)) = Len(values)
            /\ \A v \in Range(values) :
                   v = LastWithId(generators[LastChild(generators, v.id)], v.id)
            /\ \A p \in Perms(Len(generators)) :
                   Ids(CombiningFind([i \in DOMAIN generators |-> generators[p[i]]]).values)
                       = Ids(values)

\* C10 witness: two children returned the same id with different entity
\* objects, and the later child's object was returned.
C10_Witness ==
    /\ combining_ret.returned
    /\ \E g, h \in DOMAIN generators :
          /\ g < h
          /\ \E x \in Range(generators[g]), y \in Range(generators[h]) :
                /\ x.id = y.id
                /\ x # y
                /\ y \in Range(combining_ret.values)
                /\ x \notin Range(combining_ret.values)
    /\ Len(combining_ret.values) >= 2

(***************************************************************************)
(* Claims about the name indexes                                           *)
(***************************************************************************)

\* C11: for both ExactMatchMemoryNameIndex and NgramMemoryNameIndex,
\* find(name, entity_type, limit) returns at most limit entities, also when
\* more than limit entities of the type bear or match the name.
C11_AtMostLimit ==
    /\ exact_ret.returned => Len(exact_ret.entities) <= query.limit
    /\ ngram_ret.returned => Len(ngram_ret.entities) <= query.limit

\* The entities of the requested type with a name equal to the query when
\* case is ignored.
C12_Bearers ==
    {kb[e].id : e \in {i \in DOMAIN kb :
        /\ kb[i].type = query.entity_type
        /\ \E j \in DOMAIN kb[i].names : Lower(kb[i].names[j]) = Lower(query.name)}}

\* C12: ExactMatchMemoryNameIndex.find(name, type) returns exactly the
\* entities of that type having a name equal to the query when case is
\* ignored, each of them once, and no other entity; for a name no entity of
\* the type bears it returns the empty list.
C12_ExactlyTheBearers ==
    exact_ret.returned =>
        /\ Range(exact_ret.entities) = C12_Bearers
        /\ Len(exact_ret.entities) = Cardinality(C12_Bearers)

\* C13: for every KB entity e whose canonical name s is at least as long as
\* the n-gram width, NgramMemoryNameIndex.find(s, e.type) returns a list that
\* contains e, whatever else the KB holds.
C13_SelfRetrieval ==
    (ngram_ret.returned /\ query.limit = DefaultLimit) =>
        \A e \in DOMAIN kb :
            (/\ kb[e].name = query.name
             /\ kb[e].type = query.entity_type
             /\ Len(kb[e].name) >= ngram_size)
                => kb[e].id \in Range(ngram_ret.entities)

\* The name-instances of the requested type, and the n-grams of one.
C14_Instances ==
    UNION {{<<kb[e].id, i - 1>> : i \in DOMAIN kb[e].names} :
           e \in {x \in DOMAIN kb : kb[x].type = query.entity_type}}

C14_NameOf(inst) ==
    LET e == CHOOSE x \in DOMAIN kb : kb[x].id = inst[1] IN kb[e].names[inst[2] + 1]

C14_Grams(inst) == Ngrams(FormatString(C14_NameOf(inst)), ngram_size)

C14_QueryGrams == Ngrams(FormatString(query.name), ngram_size)

\* The rarity weight of an n-gram: log1p of the number of unique names over
\* the number of times the n-gram occurs in the names of the type.
C14_Weight(gram) ==
    LET occurrences == Cardinality(UNION {
            {<<inst, j>> : j \in {x \in DOMAIN C14_Grams(inst) : C14_Grams(inst)[x] = gram}} :
            inst \in C14_Instances})
    IN  <<occurrences + NumUniqueNames(kb), occurrences>>

\* The product of the fractions of a list (the sum of the weights).
RECURSIVE C14_Sum(_)
C14_Sum(ws) == IF ws = <<>> THEN <<1, 1>> ELSE MassAdd(Head(ws), C14_Sum(Tail(ws)))

\* The shared n-grams of the query and a name-instance, one per pair of
\* occurrences, and the mass they give.
C14_Shared(inst) ==
    SelectSeq(Flatten([i \in DOMAIN C14_QueryGrams |->
                  [j \in DOMAIN C14_Grams(inst) |-> <<C14_QueryGrams[i], C14_Grams(inst)[j]>>]]),
              LAMBDA pr : pr[1] = pr[2])

C14_Mass(inst) ==
    C14_Sum([i \in DOMAIN C14_Shared(inst) |-> C14_Weight(C14_Shared(inst)[i][1])])

C14_Sharing == {inst \in C14_Instances : C14_Shared(inst) # <<>>}

\* mass v is more than half of mass m
C14_MoreThanHalf(v, m) == v[1] * v[1] * m[2] > m[1] * v[2] * v[2]

C14_Kept ==
    {inst \in C14_Sharing :
        \A other \in C14_Sharing : C14_MoreThanHalf(C14_Mass(inst), C14_Mass(other))}

\* What find does before the cut, as the claim tells it: the name-instances
\* above half of the maximum mass, each once, in non-increasing order of mass.
C14_Ranked ==
    /\ Range(ngram_ret.sorted) = C14_Kept
    /\ Len(ngram_ret.sorted) = Cardinality(C14_Kept)
    /\ \A i, j \in DOMAIN ngram_ret.sorted :
           i < j => ~MassGreater(C14_Mass(ngram_ret.sorted[j]), C14_Mass(ngram_ret.sorted[i]))
    /\ ngram_ret.entities = [i \in DOMAIN ngram_ret.top |-> ngram_ret.top[i][1]]
    /\ C14_Sharing = {} => ngram_ret.entities = <<>>

MentionIds(chain) == {m.id : m \in Range(chain.mentions)}

\* The last call of merge, and the chains of the list before it that it was given
LastMerge == merges'[Len(merges')]

GivenChains == {c \in Range(doc_chains) : c.cid \in LastMerge.given}

\* C15: merge(document, S) with at least two distinct chains of the document
\* removes exactly the chains of S and appends exactly one new chain, whose
\* mentions are the union of theirs, each once; the other chains stay, the
\* same objects in the same order; the list gets shorter by the number of
\* distinct chains of S less one; a chain repeated in S changes nothing.
C15_MergeReplaces ==
    [][CorefStageMerge =>
        LET new_chain == doc_chains'[Len(doc_chains')]
        IN /\ Cardinality(GivenChains) >= 2
           /\ Range(doc_chains) \ Range(doc_chains') = GivenChains
           /\ Range(doc_chains') \ Range(doc_chains) = {new_chain}
           /\ MentionIds(new_chain) = UNION {MentionIds(c) : c \in GivenChains}
           /\ Len(new_chain.mentions) = Cardinality(MentionIds(new_chain))
           /\ SubSeq(doc_chains', 1, Len(doc_chains') - 1)
                = SelectSeq(doc_chains, LAMBDA c : c \notin GivenChains)
           /\ Len(doc_chains') = Len(doc_chains) - (Cardinality(GivenChains) - 1)
    ]_vars

\* merge was given a list that repeats a chain and holds two distinct chains
C15_Witness ==
    /\ Len(merges) = 1
    /\ merges[1].repeated
    /\ Cardinality(merges[1].given) = 2
    /\ Len(doc_chains) = Len(doc0) - 1

\* C16: the chain that merge creates lists the mentions of the merged chains
\* in the order of those chains in the chain list, and within a chain in
\* the order of the chain, whatever the order the chains are passed in.
C16_ListOrder ==
    [][CorefStageMerge =>
        doc_chains'[Len(doc_chains')].mentions
          = SumMentions(SelectSeq(doc_chains, LAMBDA c : c \in GivenChains))
    ]_vars

\* The mention sets of a chain list, when no chain repeats a mention
MentionSets(chains) ==
    IF \A c \in Range(chains) : Len(c.mentions) = Cardinality(MentionIds(c))
    THEN {MentionIds(c) : c \in Range(chains)}
    ELSE {}

\* C17: merging chains of the document and then merging the chain that
\* came out with further chains of the document gives the same mention
\* sets as merging all of them in one call.
C17_Associative ==
    (/\ Len(merges) = 2
     /\ merges[1].given \subseteq Range(Cids(doc0))
     /\ merges[1].new \in merges[2].given
     /\ merges[2].given \ {merges[1].new} \subseteq Range(Cids(doc0)))
    =>
    LET all == merges[1].given \cup (merges[2].given \ {merges[1].new})
        once == SelectSeq(doc0, LAMBDA c : c.cid \in all)
    IN MentionSets(doc_chains) = MentionSets(Merge(doc0, once, next_cid))

\* {A, B} were merged, and then the chain that came out with C
C17_Witness ==
    /\ Len(merges) = 2
    /\ merges[1].given = {2, 3}
    /\ merges[2].given = {merges[1].new, 1}
    /\ Len(doc_chains) = 2

\* update has visited all it had to visit
StageDone(kind) == stage.kind = kind /\ spc = "loop" /\ pending = <<>>

\* Two chains of the first list have their mentions in one chain of the result
Together(a, b) ==
    \E c \in Range(doc_chains) : MentionIds(a) \cup MentionIds(b) \subseteq MentionIds(c)

\* The chains that a chain is linked to by a symmetric relation, directly or
\* through other chains
RECURSIVE LinkedTo(_, _)
LinkedTo(R(_, _), set) ==
    LET more == set \cup {c \in Range(doc0) : \E a \in set : R(a, c) \/ R(c, a)}
    IN IF more = set THEN set ELSE LinkedTo(R, more)

\* Same entity type and the same best name but for case
SameBestName(a, b) == CType(a) = CType(b) /\ Lower(CName(a)) = Lower(CName(b))

\* C18: ExactMatchStage.update puts two chains into one resulting chain
\* exactly when they have the same entity type and best names that are
\* identical but for case, directly or through a chain of such equalities;
\* a chain without such a match keeps its mentions.
C18_ExactMatchRule ==
    StageDone("exact") =>
        \A a \in Range(doc0) :
            /\ \A b \in Range(doc0) \ {a} :
                  Together(a, b) <=> b \in LinkedTo(SameBestName, {a})
            /\ LinkedTo(SameBestName, {a}) = {a} =>
                  \E c \in Range(doc_chains) : c.mentions = a.mentions

\* C19: in one pass of AcronymStage.update no chain is given to two merges.
C19_OneMergePerChain ==
    stage.kind = "acronym" =>
        \A i, j \in DOMAIN merges : i # j => merges[i].given \cap merges[j].given = {}

\* a has a single token as best name, and b has a name of several tokens
\* whose designated token is that token but for case
SingleTokenOfName(a, b) ==
    /\ ~HasBlank(CName(a))
    /\ CType(a) = CType(b)
    /\ \E i \in DOMAIN b.mentions :
          /\ HasBlank(b.mentions[i].string)
          /\ Lower(TokenAt(b.mentions[i].string, stage.arg)) = Lower(CName(a))

\* C20: SingleTokenMatchStage(index).update merges a chain whose best name
\* is a single token with the chains of its type that have a name of
\* several tokens whose token at index is that single token but for case,
\* and with no other chain.
C20_SingleTokenRule ==
    StageDone("single") =>
        \A a \in Range(doc0) : \A b \in Range(doc0) \ {a} :
            Together(a, b) <=> b \in LinkedTo(SingleTokenOfName, {a})

(***************************************************************************)
(* Claims about the wrappers and the cascade of stages                     *)
(***************************************************************************)
\* C21: TypeSpecificStage and TypeSpecificResolver run what they wrap on a
\* document that holds only the chains of the listed types, and afterwards
\* every chain of another type is in document.mention_chains, the same
\* object with the same mentions, candidates and entity.
C21_OthersPassThrough ==
    /\ (wrapper.wrap = "type" /\ spc \in {"start", "loop"}) =>
          \A c \in Range(doc_chains) : CType(c) \in wrapper.over
    /\ (wrapper.wrap = "type" /\ spc = "next") =>
          \A c \in Range(doc0) : CType(c) \notin wrapper.over => c \in Range(doc_chains)
    /\ \A i \in DOMAIN log :
          resolvers[i].wrap = "type" =>
             \A c \in Range(log[i].given) :
                ChainType(c) \notin resolvers[i].arg =>
                   /\ log[i].entity[c] = IF i = 1 THEN entity0[c] ELSE log[i - 1].entity[c]
                   /\ log[i].candidates[c]
                        = IF i = 1 THEN candidates0[c] ELSE log[i - 1].candidates[c]
                   /\ i = Len(log) => c \in Range(mention_chains) \cup Range(resolved)

\* A wrapped stage has merged chains and the chains of the other types are back
C21_Witness ==
    /\ wrapper.wrap = "type" /\ spc = "next"
    /\ merges # <<>>
    /\ other_chains # <<>>
    /\ \E c \in Range(other_chains) : c \in Range(doc0) /\ c \in Range(doc_chains)

\* C22: from the singleton chains of CascadeCoref.coref on, after any
\* stages, bare or wrapped, all mentions of a chain have the same type.
C22_OneTypePerChain ==
    \A c \in Range(doc_chains) \cup Range(other_chains) :
        \A i \in DOMAIN c.mentions : c.mentions[i].type = CType(c)

\* Two stages have run and a chain of three mentions has come out
C22_Witness ==
    /\ stages_run = 2
    /\ spc = "loop" /\ pending = <<>>
    /\ \E c \in Range(doc_chains) : Len(c.mentions) >= 3

\* stage.update(document) has returned
Returned == spc = "next" \/ (spc = "loop" /\ pending = <<>> /\ wrapper.wrap # "type")

\* C29: after CascadeCoref.coref with any list of the stages, the chains of
\* document.mention_chains partition the mentions of the document: every
\* mention is in exactly one chain, once, and no chain is empty; without
\* stages there is one singleton chain per mention.
C29_MentionPartition ==
    LET all(chains) == Flatten([i \in DOMAIN chains |-> chains[i].mentions])
    IN /\ stages_run = 0 => \A c \in Range(doc_chains) : Len(c.mentions) = 1
       /\ Returned =>
            /\ \A c \in Range(doc_chains) : c.mentions # <<>>
            /\ Range(all(doc_chains)) = Range(all(doc0))
            /\ \A i, j \in DOMAIN all(doc_chains) :
                  all(doc_chains)[i] = all(doc_chains)[j] => i = j

(***************************************************************************)
(* Claims about the CorefScorer                                            *)
(***************************************************************************)
\* The sum of the numbers of a list
RECURSIVE SumOf(_)
SumOf(ns) == IF ns = <<>> THEN 0 ELSE Head(ns) + SumOf(Tail(ns))

\* The mentions of a list of clusters, and the cluster of a mention
Scored(clusters) == UNION {Range(clusters[k]) : k \in DOMAIN clusters}

ClusterOf(clusters, m) == CHOOSE k \in DOMAIN clusters : m \in Range(clusters[k])

\* size less the mentions the other side does not have, less the clusters
\* of the other side that the mentions fall into; and size less 1
MucLinks(clusters, others) ==
    <<SumOf([k \in DOMAIN clusters |->
               Len(clusters[k])
               - Cardinality(Range(clusters[k]) \ Scored(others))
               - Cardinality({ClusterOf(others, m) : m \in Range(clusters[k]) \cap Scored(others)})]),
      SumOf([k \in DOMAIN clusters |-> Len(clusters[k]) - 1])>>

\* C23: muc returns, summed over the clusters, the size less the mentions
\* absent from the map less the distinct mapped clusters, and the size
\* less 1; for the ground truth {m1, m2, m3, m4} and the predicted
\* clusters {m1, m2}, {m3, m4} recall is 2 over 3 and precision 2 over 2.
C23_MucCounts ==
    (scores.updated /\ metric = "muc") =>
        /\ scores.precision = MucLinks(predicted_clusters, gt_clusters)
        /\ scores.recall = MucLinks(gt_clusters, predicted_clusters)
        /\ (gt_clusters = <<<<1, 2, 3, 4>>>> /\ predicted_clusters = <<<<1, 2>>, <<3, 4>>>>) =>
              scores.recall = <<2, 3>> /\ scores.precision = <<2, 2>>

\* The scorer has scored the two predicted clusters against the one of the
\* ground truth
C23_Witness ==
    /\ scores.updated /\ metric = "muc"
    /\ gt_clusters = <<<<1, 2, 3, 4>>>>
    /\ predicted_clusters = <<<<1, 2>>, <<3, 4>>>>
    /\ scores.recall = <<2, 3>>

\* over the clusters of two mentions and more, the squared overlaps with
\* the clusters of the other side over the size; and all the mentions
B3Counts(clusters, others) ==
    LET overlap(k, j) == Cardinality(Range(clusters[k]) \cap Range(others[j]))
        squares(k) == SumOf([j \in DOMAIN others |-> overlap(k, j) * overlap(k, j)])
        RECURSIVE total(_)
        total(k) == IF k > Len(clusters) THEN <<0, 1>>
                    ELSE IF Len(clusters[k]) = 1 THEN total(k + 1)
                    ELSE FracAdd(<<squares(k), Len(clusters[k])>>, total(k + 1))
    IN <<total(1), Cardinality(Scored(clusters))>>

\* C24: b3 sums, over the clusters that are not singletons, the squared
\* overlaps with the mapped clusters over the cluster size, and divides by
\* the number of all mentions of the scored clusters, singletons included.
C24_B3Counts ==
    (scores.updated /\ metric = "b3") =>
        /\ scores.precision = B3Counts(predicted_clusters, gt_clusters)
        /\ scores.recall = B3Counts(gt_clusters, predicted_clusters)

(***************************************************************************)
(* Claims about the load of a KB                                           *)
(***************************************************************************)

\* The rows of the entities file that the entity filter lets through
AcceptedRows ==
    {r \in Range(streams.entities) : ~load_filters.entity \/ r.keep = "True"}

\* The canonical name of an ID and the names its rows of the alternate
\* names file carry, those the name filter rejects left out
NamesOf(id) ==
    {r.name : r \in {x \in AcceptedRows : x.id = id}}
    \cup {a.name : a \in {x \in Range(streams.alt_names) :
                              x.id = id /\ (~load_filters.name \/ x.keep = "True")}}

\* C25: after MemoryKB has loaded its two files, the KB holds the entities
\* of the accepted rows and no other, and the names of each are its
\* canonical name and the alternate names of the rows with its ID; reading
\* the alternate names again changes nothing
C25_NamesAfterLoad ==
    (loader = "MemoryKB" /\ load_pc # "start") =>
        /\ {e.id : e \in Range(entities)} = {r.id : r \in AcceptedRows}
        /\ \A e \in Range(entities) : e.name \in e.names /\ e.names = NamesOf(e.id)

(***************************************************************************)
(* Claims about the cascades of filters                                    *)
(***************************************************************************)

\* The filters of the cascade that answer True or False
Definite == {i \in DOMAIN filters : filters[i] # "None"}

\* C26: the cascade returns the answer of the first filter that answers
\* True or False, having called the filters up to that one and none after
\* it; when no filter answers True or False it has called them all and
\* returns False
C26_FirstDefiniteAnswer ==
    filter_ret.returned =>
        IF Definite = {}
        THEN filter_ret.result = "False" /\ filter_ret.calls = [i \in DOMAIN filters |-> i]
        ELSE \E d \in Definite :
                /\ \A i \in Definite : d <= i
                /\ filter_ret.result = filters[d]
                /\ filter_ret.calls = [i \in 1..d |-> i]

\* A cascade has answered whose first filter said None and whose last
\* filter was not called
C26_Witness ==
    /\ filter_ret.returned
    /\ Len(filters) = MaxFilters
    /\ filters[1] = "None"
    /\ Len(filter_ret.calls) = 2

(***************************************************************************)
(* Claims about what a find leaves alone                                   *)
(***************************************************************************)

\* C27: no find on either name index, with the get_entity and get_entities
\* it calls on the KB, changes the entities of the KB or what an index
\* stores: its keys and the list under each key
C27_ReadOnly ==
    [][kb' = kb /\ exact_index' = exact_index /\ ngram_index' = ngram_index]_vars

(***************************************************************************)
(* Claims about the reader of the ground truth                             *)
(***************************************************************************)

\* C28: a read of rows of which one carries an entity type that is not a
\* recognised one, or a link type that is not one, fails; every Link that
\* a read returns carries a recognised entity type and link type
C28_InvalidTypeFails ==
    gt_data.returned =>
        /\ (\E i \in DOMAIN gt_rows : gt_rows[i].entity_type \notin EntityTypes) => gt_data.raised
        /\ ~gt_data.raised =>
              \A k \in DOMAIN gt_data.data :
                  /\ gt_data.data[k].link.entity_type \in EntityTypes
                  /\ gt_data.data[k].link.link_type \in LinkTypes

(***************************************************************************)
(* Claims about the candidate lists as objects                             *)
(***************************************************************************)

\* C30: no resolver changes a list that exists: a chain whose candidates
\* are narrowed is bound to another list, not empty and of elements of the
\* list it had from the generator; the list the cache stores for a key
\* stays what the wrapped generator found, and a chain of a later document
\* gets that whole list
C30_ListsNotMutated ==
    [][/\ \A i \in DOMAIN heap : heap'[i] = heap[i]
       /\ \A c \in Range(DocChains) :
             /\ heap'[cache_lists'[GenKey(c)]] = wrapped[c]
             /\ apc' = "resolve" => chain_lists'[c] = cache_lists'[GenKey(c)]
             /\ chain_lists'[c] # cache_lists'[GenKey(c)] =>
                   /\ heap'[chain_lists'[c]] # <<>>
                   /\ Range(heap'[chain_lists'[c]]) \subseteq Range(wrapped[c])]_vars

\* The second document has been processed after a resolver narrowed the
\* candidates of a chain of the first to a list of its own, and c1 has the
\* three candidates of the cache
C30_Witness ==
    /\ docs_done = 1 /\ apc = "resolve"
    /\ \E i \in DOMAIN heap :
          /\ \A k \in DOMAIN cache_lists : cache_lists[k] # i
          /\ Len(heap[i]) = 2
    /\ Len(heap[chain_lists["c1"]]) = 3

====
